---- MODULE Spec2Model ----
(***************************************************************************)
(* State-machine model of the agent-platform program                       *)
(* (programs/agent-platform/src/lib.rs): the agent registry instructions,  *)
(* the staking instructions and the unstake-fee calculator.  The           *)
(* agent-registry and agent-staking programs carry the same handlers.      *)
(*                                                                         *)
(* Every instruction is one action.  An instruction that returns Err is    *)
(* rolled back by the runtime: the action then leaves every account        *)
(* unchanged and only records the error in `last`.                         *)
(*                                                                         *)
(* Scaling.  TLC integers are 32 bits wide, so u64/u32/u128 are modelled   *)
(* as U64Bits / (U64Bits \div 2) / 2*U64Bits bit integers, keeping the     *)
(* ratios of the real widths.  Lamport amounts are in units of 10^6        *)
(* lamports and the decay window is in units of 6 hours, so that the       *)
(* default fee schedule (100_000_000, 1_000_000, 100_000_000, 86_400)      *)
(* reads (100, 1, 100, 4).                                                 *)
(***************************************************************************)
EXTENDS Integers, Sequences, FiniteSets, TLC

VARIABLES
    agents,         \* creator -> AgentRegistry account at PDA ["agent", creator]
    program_state,  \* the ProgramState account at PDA ["program_state"]
    pools,          \* agent -> StakingPool account at PDA ["staking_pool", agent]
    stakes,         \* <<staker, agent>> -> StakeAccount at PDA ["stake_account", staker, agent]
    tokens,         \* staker -> balance of the staker's token account
    vaults,         \* agent -> balance of the pool's token vault
    lamports,       \* account -> native balance
    now,            \* Clock unix_timestamp
    last,           \* the last instruction: its name, its result, the event it emitted
    lock_snapshot,  \* history: creator -> the memory fields when lock_memory last succeeded
    fee_in,         \* the arguments of the last direct call of calculate_unstake_fee
    fee_out,        \* ... and its result
    fee_prev        \* history: the direct call before it, its elapsed time and result

vars == <<agents, program_state, pools, stakes, tokens, vaults, lamports, now, last,
          lock_snapshot, fee_in, fee_out, fee_prev>>

-----------------------------------------------------------------------------
(* Bounds of the model *)

U64Bits == 7
MaxTime == 5
MaxAmount == 3
InitTokens == 3
MaxFee == 3
MaxDuration == 3
MaxElapsed == 4

(* Integer widths *)
U64_MAX == 2^U64Bits - 1
U32_MAX == 2^(U64Bits \div 2) - 1
U128_MAX == 2^(2 * U64Bits) - 1

(* Program constants *)
FLAG_ACTIVE == 1
FLAG_LOCKED == 2
FLAG_HAS_STAKING == 4
MAX_URI == 96
MAX_CID_LEN == 96
DEFAULT_IMMEDIATE_FEE == 100
DEFAULT_REGULAR_FEE == 1
DEFAULT_MAX_FEE == 100
DEFAULT_DECAY_DURATION == 4
RENT_EXEMPT_MIN == 1

(* Identities.  Pubkey::default() is the all-zero key. *)
NullKey == 0
Keys == {1, 2}
TreasuryKey == 3
(* The creators whose agent the instructions are run on *)
Creators == {1}
Accounts == Keys \cup {TreasuryKey}

-----------------------------------------------------------------------------
(* Rust primitives *)

Min(a, b) == IF a <= b THEN a ELSE b
Max(a, b) == IF a >= b THEN a ELSE b

saturating_add(a, b, max) == IF a + b > max THEN max ELSE a + b
(* Faulty variant: the operands swapped *)
saturating_sub_swapped(a, b) == IF b >= a THEN b - a ELSE 0
(* Faulty variant: nothing is subtracted *)
saturating_sub_nothing(a, b) == a

saturating_sub(a, b) == IF a >= b THEN a - b ELSE 0
(* Faulty variant: the product is formed in 64 bits *)
saturating_mul_narrow(a, b, max) == IF a * b > U64_MAX THEN U64_MAX ELSE a * b
saturating_mul(a, b, max) == IF a * b > max THEN max ELSE a * b
as_u64(x) == x % (U64_MAX + 1)
as_u8(x) == x % 256

(* Option<T> *)
Some(v) == [some |-> TRUE, val |-> v]
NoneOf(d) == [some |-> FALSE, val |-> d]
unwrap_or(o, d) == IF o.some THEN o.val ELSE d

(* u32 flag words *)
HasFlag(flags, f) == (flags \div f) % 2 = 1
SetFlag(flags, f) == IF HasFlag(flags, f) THEN flags ELSE flags + f
ClearFlag(flags, f) == IF HasFlag(flags, f) THEN flags - f ELSE flags

(* Byte strings *)
Zeros(n) == [i \in 1..n |-> 0]
ZeroHash == Zeros(32)
Hash(b) == [i \in 1..32 |-> b]
Pad(s, n) == [i \in 1..n |-> IF i <= Len(s) THEN s[i] ELSE 97]

HTTPS == <<104, 116, 116, 112, 115, 58, 47, 47>>
IPFS == <<105, 112, 102, 115, 58, 47, 47>>
HTTP == <<104, 116, 116, 112, 58, 47, 47>>
BAFY == <<98, 97, 102, 121>>
QM == <<81, 109>>

starts_with(s, p) == Len(s) >= Len(p) /\ SubSeq(s, 1, Len(p)) = p

IsCont(b) == b >= 128 /\ b <= 191

RECURSIVE Utf8From(_, _)
Utf8From(s, i) ==
    IF i > Len(s) THEN TRUE
    ELSE LET b == s[i] IN
         IF b < 128 THEN Utf8From(s, i + 1)
         ELSE IF b >= 194 /\ b <= 223
              THEN i + 1 <= Len(s) /\ IsCont(s[i + 1]) /\ Utf8From(s, i + 2)
         ELSE IF b >= 224 /\ b <= 239
              THEN /\ i + 2 <= Len(s)
                   /\ IsCont(s[i + 1]) /\ IsCont(s[i + 2])
                   /\ (b = 224 => s[i + 1] >= 160)
                   /\ (b = 237 => s[i + 1] <= 159)
                   /\ Utf8From(s, i + 3)
         ELSE IF b >= 240 /\ b <= 244
              THEN /\ i + 3 <= Len(s)
                   /\ IsCont(s[i + 1]) /\ IsCont(s[i + 2]) /\ IsCont(s[i + 3])
                   /\ (b = 240 => s[i + 1] >= 144)
                   /\ (b = 244 => s[i + 1] <= 143)
                   /\ Utf8From(s, i + 4)
         ELSE FALSE

from_utf8_ok(s) == Utf8From(s, 1)

(* write_fixed: copy min(N, len) bytes, zero the tail *)
(* Faulty variant: the tail beyond the copied bytes is left as it was *)
write_fixed_keep_tail(dst, src) ==
    LET N == Len(dst)
        len == Min(N, Len(src))
    IN [i \in 1..N |-> IF i <= len THEN src[i] ELSE dst[i]]

write_fixed(dst, src) ==
    LET N == Len(dst)
        len == Min(N, Len(src))
    IN [i \in 1..N |-> IF i <= len THEN src[i]
                       ELSE IF len < N THEN 0 ELSE dst[i]]

-----------------------------------------------------------------------------
(* Accounts *)

NoAgent == [exists |-> FALSE]
NoState == [exists |-> FALSE]
NoPool == [exists |-> FALSE]
NoStakeAccount == [exists |-> FALSE]

Exists(acc) == acc.exists

(* The outcome of an instruction.  emit! is the last statement before Ok(()) in
   every handler that emits, so an event is logged exactly on that path. *)
Result(op, err, event) == [op |-> op, err |-> err, event |-> event]
Ok(acc, event) == [err |-> "Ok", acc |-> acc, event |-> event]
Err(e, acc) == [err |-> e, acc |-> acc, event |-> "none"]

-----------------------------------------------------------------------------
(* Agent registry instructions *)

(* Faulty variant: the scheme is not checked *)
card_check_any_scheme(card_uri) ==
    IF ~(Len(card_uri) > 0 /\ Len(card_uri) <= MAX_URI) THEN "InvalidLength"
    ELSE "Ok"

(* Faulty variant: the scheme is checked before the length *)
card_check_scheme_first(card_uri) ==
    IF ~(starts_with(card_uri, HTTPS) \/ starts_with(card_uri, IPFS)) THEN "InsecureUrl"
    ELSE IF ~(Len(card_uri) > 0 /\ Len(card_uri) <= MAX_URI) THEN "InvalidLength"
    ELSE "Ok"

(* The card checks shared by create_agent and set_card *)
card_check(card_uri) ==
    IF ~(Len(card_uri) > 0 /\ Len(card_uri) <= MAX_URI) THEN "InvalidLength"
    ELSE IF ~(starts_with(card_uri, HTTPS) \/ starts_with(card_uri, IPFS)) THEN "InsecureUrl"
    ELSE "Ok"

(* The optional memory block of create_agent, applied to the fresh account *)
(* Faulty variant: the Url pointer is compared as bytes, without decoding it *)
create_agent_memory_bytes(agent, memory_mode, memory_ptr, memory_hash) ==
    IF memory_mode.some
    THEN IF memory_ptr.some
         THEN LET mode == memory_mode.val
                  ptr == memory_ptr.val
              IN IF ~(Len(ptr) > 0 /\ Len(ptr) <= MAX_CID_LEN) THEN Err("InvalidLength", agent)
                 ELSE IF ~(mode <= 3) THEN Err("InvalidMemoryFields", agent)
                 ELSE IF mode = 3 /\ ~starts_with(ptr, HTTPS) THEN Err("InsecureUrl", agent)
                 ELSE Ok([agent EXCEPT !.memory_mode = mode,
                                       !.memory_ptr_len = as_u8(Len(ptr)),
                                       !.memory_ptr = write_fixed(@, ptr),
                                       !.memory_hash = unwrap_or(memory_hash, ZeroHash)],
                         "none")
         ELSE Err("InvalidMemoryFields", agent)
    ELSE Ok([agent EXCEPT !.memory_mode = 0,
                          !.memory_ptr_len = 0,
                          !.memory_ptr = Zeros(96),
                          !.memory_hash = ZeroHash],
            "none")

create_agent_memory(agent, memory_mode, memory_ptr, memory_hash) ==
    IF memory_mode.some
    THEN IF memory_ptr.some
         THEN LET mode == memory_mode.val
                  ptr == memory_ptr.val
              IN IF ~(Len(ptr) > 0 /\ Len(ptr) <= MAX_CID_LEN) THEN Err("InvalidLength", agent)
                 ELSE IF ~(mode <= 3) THEN Err("InvalidMemoryFields", agent)
                 ELSE IF mode = 3 /\ ~from_utf8_ok(ptr) THEN Err("InvalidMemoryFields", agent)
                 ELSE IF mode = 3 /\ ~starts_with(ptr, HTTPS) THEN Err("InsecureUrl", agent)
                 ELSE Ok([agent EXCEPT !.memory_mode = mode,
                                       !.memory_ptr_len = as_u8(Len(ptr)),
                                       !.memory_ptr = write_fixed(@, ptr),
                                       !.memory_hash = unwrap_or(memory_hash, ZeroHash)],
                         "none")
         ELSE Err("InvalidMemoryFields", agent)
    ELSE Ok([agent EXCEPT !.memory_mode = 0,
                          !.memory_ptr_len = 0,
                          !.memory_ptr = Zeros(96),
                          !.memory_hash = ZeroHash],
            "none")

(* The zero-filled account that `init` hands to create_agent *)
FreshAgent ==
    [exists |-> TRUE, version |-> 0, creator |-> NullKey, owner |-> NullKey,
     memory_mode |-> 0, memory_ptr_len |-> 0, memory_ptr |-> Zeros(96),
     memory_hash |-> ZeroHash, card_uri_len |-> 0, card_uri |-> Zeros(96),
     card_hash |-> ZeroHash, flags |-> 0]

create_agent(creator, card_uri, card_hash, has_staking, memory_mode, memory_ptr, memory_hash) ==
    LET a0 == [FreshAgent EXCEPT !.version = 1, !.creator = creator, !.owner = creator]
        m == create_agent_memory(a0, memory_mode, memory_ptr, memory_hash)
    IN IF m.err # "Ok" THEN m
       ELSE IF card_check(card_uri) # "Ok" THEN Err(card_check(card_uri), m.acc)
       ELSE LET a1 == [m.acc EXCEPT !.card_uri_len = as_u8(Len(card_uri)),
                                    !.card_uri = write_fixed(@, card_uri),
                                    !.card_hash = card_hash]
                a2 == [a1 EXCEPT !.flags = FLAG_ACTIVE]
                a3 == IF unwrap_or(has_staking, TRUE)
                      THEN [a2 EXCEPT !.flags = SetFlag(@, FLAG_HAS_STAKING)]
                      ELSE a2
            IN Ok(a3, "AgentCreated")

set_card(agent, card_uri, card_hash) ==
    IF card_check(card_uri) # "Ok" THEN Err(card_check(card_uri), agent)
    ELSE Ok([agent EXCEPT !.card_uri_len = as_u8(Len(card_uri)),
                          !.card_uri = write_fixed(@, card_uri),
                          !.card_hash = card_hash],
            "CardSet")

(* The CID shape test of set_memory's Cid arm *)
IsBase32(c) == (c >= 97 /\ c <= 122) \/ (c >= 50 /\ c <= 55)
IsBase58(c) ==
    \/ (c >= 49 /\ c <= 57)
    \/ (c >= 65 /\ c <= 72)
    \/ (c >= 74 /\ c <= 78)
    \/ (c >= 80 /\ c <= 90)
    \/ (c >= 97 /\ c <= 107)
    \/ (c >= 109 /\ c <= 122)

(* Faulty variant: any UTF-8 pointer passes for a CID *)
is_cid_like_any_text(ptr) == from_utf8_ok(ptr)

is_cid_like(ptr) ==
    IF from_utf8_ok(ptr)
    THEN LET bytes_ok == Len(ptr) > 0 /\ Len(ptr) <= MAX_CID_LEN
         IN IF starts_with(ptr, BAFY)
            THEN bytes_ok /\ \A i \in 1..Len(ptr) : IsBase32(ptr[i])
            ELSE IF starts_with(ptr, QM)
            THEN bytes_ok /\ (\A i \in 1..Len(ptr) : IsBase58(ptr[i])) /\ Len(ptr) = 46
            ELSE FALSE
    ELSE FALSE

(* set_memory once the lock check has passed *)
set_memory_fields(agent, mode, ptr, hash_opt) ==
    IF ~(Len(ptr) <= 96) THEN Err("InvalidLength", agent)
    ELSE IF mode \notin 0..4 THEN Err("InvalidMemoryFields", agent)
    ELSE LET arm ==
               IF mode = 0
               THEN IF ~(Len(ptr) = 0) THEN Err("InvalidMemoryFields", agent)
                    ELSE IF ~(unwrap_or(hash_opt, ZeroHash) = ZeroHash)
                         THEN Err("InvalidMemoryFields", agent)
                    ELSE Ok([agent EXCEPT !.memory_hash = ZeroHash,
                                          !.memory_ptr_len = 0,
                                          !.memory_ptr = Zeros(96)], "none")
               ELSE IF mode = 1
               THEN IF ~(Len(ptr) # 0) THEN Err("InvalidMemoryFields", agent)
                    ELSE IF ~(unwrap_or(hash_opt, ZeroHash) = ZeroHash)
                         THEN Err("InvalidMemoryFields", agent)
                    ELSE IF ~is_cid_like(ptr) THEN Err("InvalidMemoryFields", agent)
                    ELSE Ok([agent EXCEPT !.memory_hash = ZeroHash], "none")
               ELSE IF ~(Len(ptr) # 0) THEN Err("InvalidMemoryFields", agent)
                    ELSE IF ~hash_opt.some THEN Err("InvalidMemoryFields", agent)
                    ELSE IF ~(hash_opt.val # ZeroHash) THEN Err("InvalidMemoryFields", agent)
                    ELSE IF mode = 3 /\ ~from_utf8_ok(ptr) THEN Err("InvalidMemoryFields", agent)
                    ELSE IF mode = 3 /\ ~starts_with(ptr, HTTPS) THEN Err("InsecureUrl", agent)
                    ELSE Ok([agent EXCEPT !.memory_hash = hash_opt.val], "none")
         IN IF arm.err # "Ok" THEN arm
            ELSE LET a1 == [arm.acc EXCEPT !.memory_mode = mode]
                     a2 == IF mode # 0
                           THEN [a1 EXCEPT !.memory_ptr_len = as_u8(Len(ptr)),
                                           !.memory_ptr = write_fixed(@, ptr)]
                           ELSE a1
                 IN Ok(a2, "MemoryUpdated")

(* Faulty variant: the lock is not checked *)
set_memory_ignoring_lock(agent, mode, ptr, hash_opt) ==
    set_memory_fields(agent, mode, ptr, hash_opt)

set_memory(agent, mode, ptr, hash_opt) ==
    IF ~(~HasFlag(agent.flags, FLAG_LOCKED)) THEN Err("MemoryLocked", agent)
    ELSE set_memory_fields(agent, mode, ptr, hash_opt)

(* Faulty variant: the flag word is assigned instead of or-ed *)
lock_memory_overwrite(agent) ==
    Ok([agent EXCEPT !.flags = FLAG_LOCKED], "MemoryLocked")

lock_memory(agent) ==
    Ok([agent EXCEPT !.flags = SetFlag(@, FLAG_LOCKED)], "MemoryLocked")

(* Faulty variant: the flag word is assigned instead of or-ed and masked *)
set_active_overwrite(agent, is_active) ==
    Ok([agent EXCEPT !.flags = IF is_active THEN FLAG_ACTIVE ELSE 0], "AgentActiveSet")

(* Faulty variant: the bit is flipped whatever the argument *)
set_active_toggle(agent, is_active) ==
    Ok(IF HasFlag(agent.flags, FLAG_ACTIVE)
       THEN [agent EXCEPT !.flags = ClearFlag(@, FLAG_ACTIVE)]
       ELSE [agent EXCEPT !.flags = SetFlag(@, FLAG_ACTIVE)],
       "AgentActiveSet")

set_active(agent, is_active) ==
    Ok(IF is_active
       THEN [agent EXCEPT !.flags = SetFlag(@, FLAG_ACTIVE)]
       ELSE [agent EXCEPT !.flags = ClearFlag(@, FLAG_ACTIVE)],
       "AgentActiveSet")

(* Faulty variant: the staking flag is not checked *)
close_agent_ignoring_staking(agent) ==
    IF ~(~HasFlag(agent.flags, FLAG_ACTIVE)) THEN Err("AgentActive", agent)
    ELSE Ok(agent, "AgentClosed")

close_agent(agent) ==
    IF ~(~HasFlag(agent.flags, FLAG_ACTIVE)) THEN Err("AgentActive", agent)
    ELSE IF ~(~HasFlag(agent.flags, FLAG_HAS_STAKING)) THEN Err("StakingEnabled", agent)
    ELSE Ok(agent, "AgentClosed")

(* Faulty variant: the null key is accepted as the new owner *)
transfer_owner_unchecked(agent, new_owner) ==
    Ok([agent EXCEPT !.owner = new_owner], "OwnerTransferred")

transfer_owner(agent, new_owner) ==
    IF ~(new_owner # NullKey) THEN Err("InvalidOwner", agent)
    ELSE Ok([agent EXCEPT !.owner = new_owner], "OwnerTransferred")

(* Faulty variant: the constraint compares the signer with the creator *)
UpdateAgentAccounts_by_creator(agent, owner) ==
    IF ~Exists(agent) THEN "AccountNotInitialized"
    ELSE IF ~(agent.creator = owner) THEN "Unauthorized"
    ELSE "Ok"

(* Account validation of the UpdateAgent and CloseAgent contexts *)
UpdateAgentAccounts(agent, owner) ==
    IF ~Exists(agent) THEN "AccountNotInitialized"
    ELSE IF ~(agent.owner = owner) THEN "Unauthorized"
    ELSE "Ok"

CloseAgentAccounts(agent, owner) ==
    IF ~Exists(agent) THEN "AccountNotInitialized"
    ELSE IF ~(agent.owner = owner) THEN "Unauthorized"
    ELSE "Ok"

(* Faulty variant: the signer is not compared with the creator *)
CreateAgentAccounts_any_signer(agent, creator_signer, creator) ==
    IF Exists(agent) THEN "AccountAlreadyInUse" ELSE "Ok"

(* Account validation of the CreateAgent context: `init` creates the account at
   ["agent", creator], then the signer constraint is checked *)
CreateAgentAccounts(agent, creator_signer, creator) ==
    IF Exists(agent) THEN "AccountAlreadyInUse"
    ELSE IF ~(creator_signer = creator) THEN "Unauthorized"
    ELSE "Ok"

-----------------------------------------------------------------------------
(* Fee decay calculator *)

FeeOk(fee) == [err |-> "Ok", fee |-> fee]
FeeErr(e) == [err |-> e, fee |-> 0]

(* Faulty variant: the interpolated fee is not clamped to fee_max_lamports *)
calculate_unstake_fee_unclamped(elapsed_secs, state) ==
    IF ~(state.decay_duration_seconds > 0) THEN FeeErr("InvalidFeeConfig")
    ELSE IF elapsed_secs >= as_u64(state.decay_duration_seconds)
    THEN FeeOk(Min(state.fee_regular_lamports, state.fee_max_lamports))
    ELSE LET diff == saturating_sub(state.fee_immediate_lamports,
                                    state.fee_regular_lamports)
             reduction == saturating_mul(diff, elapsed_secs, U128_MAX)
                              \div state.decay_duration_seconds
         IN FeeOk(as_u64(saturating_sub(state.fee_immediate_lamports, reduction)))

(* Faulty variant: the interpolation runs upwards from the regular fee *)
calculate_unstake_fee_rising(elapsed_secs, state) ==
    IF ~(state.decay_duration_seconds > 0) THEN FeeErr("InvalidFeeConfig")
    ELSE IF elapsed_secs >= as_u64(state.decay_duration_seconds)
    THEN FeeOk(Min(state.fee_regular_lamports, state.fee_max_lamports))
    ELSE LET diff == saturating_sub(state.fee_immediate_lamports,
                                    state.fee_regular_lamports)
             reduction == saturating_mul(diff, elapsed_secs, U128_MAX)
                              \div state.decay_duration_seconds
             fee == saturating_add(state.fee_regular_lamports, reduction, U64_MAX)
         IN FeeOk(as_u64(Min(fee, state.fee_max_lamports)))

(* Faulty variant: the duration is compared with the elapsed time before it is
   checked, and the division is left unguarded *)
calculate_unstake_fee_late_guard(elapsed_secs, state) ==
    IF elapsed_secs >= as_u64(state.decay_duration_seconds)
    THEN FeeOk(Min(state.fee_regular_lamports, state.fee_max_lamports))
    ELSE LET diff == saturating_sub(state.fee_immediate_lamports,
                                    state.fee_regular_lamports)
             reduction == saturating_mul(diff, elapsed_secs, U128_MAX)
                              \div state.decay_duration_seconds
             fee == saturating_sub(state.fee_immediate_lamports, reduction)
         IN FeeOk(as_u64(Min(fee, state.fee_max_lamports)))

calculate_unstake_fee(elapsed_secs, state) ==
    IF ~(state.decay_duration_seconds > 0) THEN FeeErr("InvalidFeeConfig")
    ELSE IF elapsed_secs >= as_u64(state.decay_duration_seconds)
    THEN FeeOk(Min(state.fee_regular_lamports, state.fee_max_lamports))
    ELSE LET immediate == state.fee_immediate_lamports
             regular == state.fee_regular_lamports
             duration == state.decay_duration_seconds
             elapsed == elapsed_secs
             diff == saturating_sub(immediate, regular)
             product == saturating_mul(diff, elapsed, U128_MAX)
         IN IF duration = 0 THEN FeeErr("InvalidFeeConfig")
            ELSE LET reduction == product \div duration
                     fee == saturating_sub(immediate, reduction)
                 IN FeeOk(as_u64(Min(fee, state.fee_max_lamports)))

-----------------------------------------------------------------------------
(* Staking instructions *)

MintKey == 1

(* Faulty variant: the tokens leave the source and do not reach the destination *)
token_transfer_no_credit(from_balance, to_balance, amount) ==
    IF from_balance < amount \/ to_balance < 0
    THEN [ok |-> FALSE, from |-> from_balance, to |-> to_balance]
    ELSE [ok |-> TRUE, from |-> from_balance - amount, to |-> to_balance]

(* The token program's transfer: fails when the source balance is too small *)
token_transfer(from_balance, to_balance, amount) ==
    IF from_balance < amount \/ to_balance < 0
    THEN [ok |-> FALSE, from |-> from_balance, to |-> to_balance]
    ELSE [ok |-> TRUE, from |-> from_balance - amount, to |-> to_balance + amount]

(* The system program's transfer of lamports between two accounts *)
(* Faulty variant: the lamports leave the payer and reach nobody *)
system_transfer_burn(balances, from, to, amount) ==
    IF balances[from] < amount THEN [ok |-> FALSE, balances |-> balances]
    ELSE [ok |-> TRUE, balances |-> [balances EXCEPT ![from] = @ - amount]]

system_transfer(balances, from, to, amount) ==
    IF balances[from] < amount THEN [ok |-> FALSE, balances |-> balances]
    ELSE IF from = to THEN [ok |-> TRUE, balances |-> balances]
    ELSE [ok |-> TRUE,
          balances |-> [balances EXCEPT ![from] = @ - amount, ![to] = @ + amount]]

init_program_state(treasury) ==
    Ok([exists |-> TRUE,
        fee_immediate_lamports |-> DEFAULT_IMMEDIATE_FEE,
        fee_regular_lamports |-> DEFAULT_REGULAR_FEE,
        fee_max_lamports |-> DEFAULT_MAX_FEE,
        decay_duration_seconds |-> DEFAULT_DECAY_DURATION,
        treasury |-> treasury],
       "none")

(* Faulty variant: a pool may be created with a zero minimum *)
create_staking_pool_any_minimum(agent_key, owner, min_stake_amount, clock) ==
    Ok([exists |-> TRUE,
        agent_pda |-> agent_key,
        owner |-> owner,
        token_mint |-> MintKey,
        token_vault |-> agent_key,
        min_stake_amount |-> min_stake_amount,
        total_staked |-> 0,
        staker_count |-> 0,
        created_at |-> clock,
        flags |-> 1],
       "PoolCreated")

create_staking_pool(agent_key, owner, min_stake_amount, clock) ==
    IF ~(min_stake_amount > 0) THEN Err("InvalidMinStakeAmount", NoPool)
    ELSE Ok([exists |-> TRUE,
             agent_pda |-> agent_key,
             owner |-> owner,
             token_mint |-> MintKey,
             token_vault |-> agent_key,
             min_stake_amount |-> min_stake_amount,
             total_staked |-> 0,
             staker_count |-> 0,
             created_at |-> clock,
             flags |-> 1],
            "PoolCreated")

update_min_stake(pool, owner, new_min_stake_amount) ==
    IF ~(new_min_stake_amount > 0) THEN Err("InvalidMinStakeAmount", pool)
    ELSE IF ~(pool.owner = owner) THEN Err("Unauthorized", pool)
    ELSE Ok([pool EXCEPT !.min_stake_amount = new_min_stake_amount], "MinStakeUpdated")

init_stake(pool, staker, clock) ==
    Ok([exists |-> TRUE,
        staker |-> staker,
        agent_pda |-> pool.agent_pda,
        staked_amount |-> 0,
        staked_at |-> clock,
        last_updated_at |-> clock],
       "none")

(* The result of stake and withdraw_stake: both accounts and every balance *)
StakeOut(err, pool, stake_acc, staker_tokens, vault_tokens, balances, fee, event) ==
    [err |-> err, pool |-> pool, stake_acc |-> stake_acc, staker_tokens |-> staker_tokens,
     vault_tokens |-> vault_tokens, balances |-> balances, fee |-> fee, event |-> event]

(* Faulty variant: no stake is gated *)
below_minimum_never(pool, stake_acc, amount) == FALSE

(* Faulty variant: every stake is gated, a top-up too *)
below_minimum_every_stake(pool, stake_acc, amount) == ~(amount >= pool.min_stake_amount)

(* The minimum-stake gate of stake: only a position that holds nothing is gated *)
(* Faulty variant: the minimum is enforced on the first deposit into the pool *)
below_minimum_empty_pool(pool, stake_acc, amount) ==
    pool.total_staked = 0 /\ ~(amount >= pool.min_stake_amount)

below_minimum(pool, stake_acc, amount) ==
    stake_acc.staked_amount = 0 /\ ~(amount >= pool.min_stake_amount)

stake(pool, stake_acc, staker, amount, staker_tokens, vault_tokens, balances, clock) ==
    IF ~(amount > 0)
    THEN StakeOut("InvalidStakeAmount", pool, stake_acc, staker_tokens, vault_tokens,
                  balances, 0, "none")
    ELSE IF below_minimum(pool, stake_acc, amount)
    THEN StakeOut("BelowMinimumStake", pool, stake_acc, staker_tokens, vault_tokens,
                  balances, 0, "none")
    ELSE LET pool1 == IF stake_acc.staked_amount = 0
                      THEN [pool EXCEPT !.staker_count = saturating_add(@, 1, U32_MAX)]
                      ELSE pool
             t == token_transfer(staker_tokens, vault_tokens, amount)
         IN IF ~(stake_acc.staker = staker)
            THEN StakeOut("Unauthorized", pool1, stake_acc, staker_tokens, vault_tokens,
                          balances, 0, "none")
            ELSE IF ~t.ok
            THEN StakeOut("InsufficientFunds", pool1, stake_acc, staker_tokens,
                          vault_tokens, balances, 0, "none")
            ELSE StakeOut("Ok",
                          [pool1 EXCEPT !.total_staked = saturating_add(@, amount, U64_MAX)],
                          [stake_acc EXCEPT
                               !.staked_amount = saturating_add(@, amount, U64_MAX),
                               !.last_updated_at = clock],
                          t.from, t.to, balances, 0, "Staked")

(* Faulty variant: an empty position is not turned away *)
withdraw_stake_unguarded(pool, state, stake_acc, staker, staker_tokens, vault_tokens, balances, clock) ==
    LET elapsed == as_u64(Max(clock - stake_acc.staked_at, 0))
        f == calculate_unstake_fee(elapsed, state)
        fee == f.fee
        pay == system_transfer(balances, staker, state.treasury, fee)
        balances1 == IF fee > 0 THEN pay.balances ELSE balances
        amount == stake_acc.staked_amount
        t == token_transfer(vault_tokens, staker_tokens, amount)
    IN IF f.err # "Ok" \/ ~pay.ok \/ ~t.ok
       THEN StakeOut("Failed", pool, stake_acc, staker_tokens, vault_tokens, balances,
                     0, "none")
       ELSE StakeOut("Ok",
                     [pool EXCEPT !.total_staked = saturating_sub(@, amount)],
                     [stake_acc EXCEPT !.staked_amount = 0, !.last_updated_at = clock],
                     t.to, t.from, balances1, fee, "Withdrawn")

(* Faulty variant: a position below the pool's present minimum cannot be withdrawn *)
withdraw_stake_above_minimum(pool, state, stake_acc, staker, staker_tokens, vault_tokens, balances, clock) ==
    IF stake_acc.staked_amount > 0 /\ stake_acc.staked_amount < pool.min_stake_amount
    THEN StakeOut("BelowMinimumStake", pool, stake_acc, staker_tokens, vault_tokens, balances, 0, "none")
    ELSE IF ~(stake_acc.staked_amount > 0)
    THEN StakeOut("NoStake", pool, stake_acc, staker_tokens, vault_tokens, balances, 0, "none")
    ELSE LET elapsed == as_u64(Max(clock - stake_acc.staked_at, 0))
             f == calculate_unstake_fee(elapsed, state)
             fee == f.fee
             pay == system_transfer(balances, staker, state.treasury, fee)
             balances1 == IF fee > 0 THEN pay.balances ELSE balances
             amount == stake_acc.staked_amount
             t == token_transfer(vault_tokens, staker_tokens, amount)
         IN IF f.err # "Ok"
            THEN StakeOut(f.err, pool, stake_acc, staker_tokens, vault_tokens, balances,
                          0, "none")
            ELSE IF fee > 0
                    /\ ~(balances[staker] >= saturating_add(fee, RENT_EXEMPT_MIN, U64_MAX))
            THEN StakeOut("InsufficientSolForFee", pool, stake_acc, staker_tokens,
                          vault_tokens, balances, fee, "none")
            ELSE IF fee > 0 /\ ~pay.ok
            THEN StakeOut("InsufficientLamports", pool, stake_acc, staker_tokens,
                          vault_tokens, balances, fee, "none")
            ELSE IF ~t.ok
            THEN StakeOut("InsufficientFunds", pool, stake_acc, staker_tokens,
                          vault_tokens, balances1, fee, "none")
            ELSE StakeOut("Ok",
                          [pool EXCEPT !.total_staked = saturating_sub(@, amount)],
                          [stake_acc EXCEPT !.staked_amount = 0,
                                            !.last_updated_at = clock],
                          t.to, t.from, balances1, fee, "Withdrawn")

withdraw_stake(pool, state, stake_acc, staker, staker_tokens, vault_tokens, balances, clock) ==
    IF ~(stake_acc.staked_amount > 0)
    THEN StakeOut("NoStake", pool, stake_acc, staker_tokens, vault_tokens, balances, 0, "none")
    ELSE LET elapsed == as_u64(Max(clock - stake_acc.staked_at, 0))
             f == calculate_unstake_fee(elapsed, state)
             fee == f.fee
             pay == system_transfer(balances, staker, state.treasury, fee)
             balances1 == IF fee > 0 THEN pay.balances ELSE balances
             amount == stake_acc.staked_amount
             t == token_transfer(vault_tokens, staker_tokens, amount)
         IN IF f.err # "Ok"
            THEN StakeOut(f.err, pool, stake_acc, staker_tokens, vault_tokens, balances,
                          0, "none")
            ELSE IF fee > 0
                    /\ ~(balances[staker] >= saturating_add(fee, RENT_EXEMPT_MIN, U64_MAX))
            THEN StakeOut("InsufficientSolForFee", pool, stake_acc, staker_tokens,
                          vault_tokens, balances, fee, "none")
            ELSE IF fee > 0 /\ ~pay.ok
            THEN StakeOut("InsufficientLamports", pool, stake_acc, staker_tokens,
                          vault_tokens, balances, fee, "none")
            ELSE IF ~t.ok
            THEN StakeOut("InsufficientFunds", pool, stake_acc, staker_tokens,
                          vault_tokens, balances1, fee, "none")
            ELSE StakeOut("Ok",
                          [pool EXCEPT !.total_staked = saturating_sub(@, amount)],
                          [stake_acc EXCEPT !.staked_amount = 0,
                                            !.last_updated_at = clock],
                          t.to, t.from, balances1, fee, "Withdrawn")

(* Account validation of the staking contexts.  `init` accounts are created before
   the other constraints are checked; a PDA passed for other seeds fails the seeds
   check before the raw constraint is reached. *)
(* Faulty variant: the configuration account is initialised again *)
InitProgramStateAccounts_reinit(state) == "Ok"

InitProgramStateAccounts(state) ==
    IF Exists(state) THEN "AccountAlreadyInUse" ELSE "Ok"

(* Faulty variants: the pool account is initialised again when it exists; the
   owner is not compared with the agent's owner *)
CreateStakingPoolAccounts_reinit(agent, pool, owner) ==
    IF ~Exists(agent) THEN "AccountNotInitialized"
    ELSE IF ~HasFlag(agent.flags, FLAG_HAS_STAKING) THEN "StakingNotEnabled"
    ELSE IF ~(owner = agent.owner) THEN "Unauthorized"
    ELSE "Ok"

CreateStakingPoolAccounts_any_owner(agent, pool, owner) ==
    IF ~Exists(agent) THEN "AccountNotInitialized"
    ELSE IF Exists(pool) THEN "AccountAlreadyInUse"
    ELSE IF ~HasFlag(agent.flags, FLAG_HAS_STAKING) THEN "StakingNotEnabled"
    ELSE "Ok"

CreateStakingPoolAccounts(agent, pool, owner) ==
    IF ~Exists(agent) THEN "AccountNotInitialized"
    ELSE IF Exists(pool) THEN "AccountAlreadyInUse"
    ELSE IF ~HasFlag(agent.flags, FLAG_HAS_STAKING) THEN "StakingNotEnabled"
    ELSE IF ~(owner = agent.owner) THEN "Unauthorized"
    ELSE "Ok"

UpdateMinStakeAccounts(pool) ==
    IF ~Exists(pool) THEN "AccountNotInitialized" ELSE "Ok"

(* Faulty variant: an existing position is initialised again *)
InitStakeAccounts_reinit(pool, stake_acc) ==
    IF ~Exists(pool) THEN "AccountNotInitialized" ELSE "Ok"

InitStakeAccounts(pool, stake_acc) ==
    IF ~Exists(pool) THEN "AccountNotInitialized"
    ELSE IF Exists(stake_acc) THEN "AccountAlreadyInUse"
    ELSE "Ok"

(* Faulty variant: the raw constraint is evaluated before the seeds *)
StakeAccounts_constraint_first(pool, stake_acc, seed_staker, staker) ==
    IF ~Exists(pool) THEN "AccountNotInitialized"
    ELSE IF ~Exists(stake_acc) THEN "AccountNotInitialized"
    ELSE IF ~(stake_acc.staker = staker) THEN "Unauthorized"
    ELSE IF ~(seed_staker = staker) THEN "ConstraintSeeds"
    ELSE "Ok"

StakeAccounts(pool, stake_acc, seed_staker, staker) ==
    IF ~Exists(pool) THEN "AccountNotInitialized"
    ELSE IF ~Exists(stake_acc) THEN "AccountNotInitialized"
    ELSE IF ~(seed_staker = staker) THEN "ConstraintSeeds"
    ELSE IF ~(stake_acc.staker = staker) THEN "Unauthorized"
    ELSE "Ok"

WithdrawStakeAccounts(state, pool, stake_acc, seed_staker, staker) ==
    IF ~Exists(state) THEN "AccountNotInitialized"
    ELSE IF ~Exists(pool) THEN "AccountNotInitialized"
    ELSE IF ~Exists(stake_acc) THEN "AccountNotInitialized"
    ELSE IF ~(seed_staker = staker) THEN "ConstraintSeeds"
    ELSE IF ~(stake_acc.staker = staker) THEN "Unauthorized"
    ELSE "Ok"

-----------------------------------------------------------------------------
(* Initial state: no account exists yet; the stakers hold tokens and lamports *)

DefaultState ==
    [exists |-> TRUE,
     fee_immediate_lamports |-> DEFAULT_IMMEDIATE_FEE,
     fee_regular_lamports |-> DEFAULT_REGULAR_FEE,
     fee_max_lamports |-> DEFAULT_MAX_FEE,
     decay_duration_seconds |-> DEFAULT_DECAY_DURATION,
     treasury |-> TreasuryKey]

InitLamports ==
    [k \in Accounts |-> IF k = 1 THEN 2 * DEFAULT_IMMEDIATE_FEE + 50
                        ELSE IF k = 2 THEN 60 ELSE 0]

NoSnapshot == [taken |-> FALSE]
NoCall == [err |-> "none", fee |-> 0]
NoPrevCall == [elapsed_secs |-> 0, err |-> "none", fee |-> 0]

InitAccounts ==
    /\ agents = [c \in Keys |-> NoAgent]
    /\ program_state = NoState
    /\ pools = [a \in Keys |-> NoPool]
    /\ stakes = [p \in Keys \X Keys |-> NoStakeAccount]
    /\ tokens = [k \in Keys |-> InitTokens]
    /\ vaults = [a \in Keys |-> 0]
    /\ lamports = InitLamports
    /\ now = 0
    /\ last = Result("Init", "Ok", "none")
    /\ lock_snapshot = [c \in Keys |-> NoSnapshot]

Init ==
    /\ InitAccounts
    /\ fee_in = [elapsed_secs |-> 0, state |-> DefaultState]
    /\ fee_out = NoCall
    /\ fee_prev = NoPrevCall

(* A failed instruction is rolled back: the account keeps its old contents *)
Commit(old, r) == IF r.err = "Ok" THEN r.acc ELSE old

staking_vars == <<program_state, pools, stakes, tokens, vaults, lamports, now>>
fee_vars == <<fee_in, fee_out, fee_prev>>

-----------------------------------------------------------------------------
(* Agent registry actions: account validation, handler, commit or rollback *)

(* The memory fields of a record, and what lock_snapshot keeps of a locked record *)
Memory(agent) ==
    <<agent.memory_mode, agent.memory_ptr_len, agent.memory_ptr, agent.memory_hash>>
Snapshot(agent) == [taken |-> TRUE, memory |-> Memory(agent)]

CreateAgent(creator_signer, creator, card_uri, card_hash, has_staking, memory_mode, memory_ptr, memory_hash) ==
    LET chk == CreateAgentAccounts(agents[creator], creator_signer, creator)
        r == IF chk # "Ok" THEN Err(chk, agents[creator])
             ELSE create_agent(creator, card_uri, card_hash, has_staking,
                               memory_mode, memory_ptr, memory_hash)
    IN /\ agents' = [agents EXCEPT ![creator] = Commit(@, r)]
       /\ last' = Result("CreateAgent", r.err, r.event)
       /\ UNCHANGED <<lock_snapshot, staking_vars, fee_vars>>

SetCard(owner, c, card_uri, card_hash) ==
    LET chk == UpdateAgentAccounts(agents[c], owner)
        r == IF chk # "Ok" THEN Err(chk, agents[c])
             ELSE set_card(agents[c], card_uri, card_hash)
    IN /\ agents' = [agents EXCEPT ![c] = Commit(@, r)]
       /\ last' = Result("SetCard", r.err, r.event)
       /\ UNCHANGED <<lock_snapshot, staking_vars, fee_vars>>

SetMemory(owner, c, mode, ptr, hash_opt) ==
    LET chk == UpdateAgentAccounts(agents[c], owner)
        r == IF chk # "Ok" THEN Err(chk, agents[c])
             ELSE set_memory(agents[c], mode, ptr, hash_opt)
    IN /\ agents' = [agents EXCEPT ![c] = Commit(@, r)]
       /\ last' = Result("SetMemory", r.err, r.event)
       /\ UNCHANGED <<lock_snapshot, staking_vars, fee_vars>>

LockMemory(owner, c) ==
    LET chk == UpdateAgentAccounts(agents[c], owner)
        r == IF chk # "Ok" THEN Err(chk, agents[c]) ELSE lock_memory(agents[c])
    IN /\ agents' = [agents EXCEPT ![c] = Commit(@, r)]
       /\ last' = Result("LockMemory", r.err, r.event)
       /\ lock_snapshot' = IF r.err = "Ok"
                           THEN [lock_snapshot EXCEPT ![c] = Snapshot(r.acc)]
                           ELSE lock_snapshot
       /\ UNCHANGED <<staking_vars, fee_vars>>

SetActive(owner, c, is_active) ==
    LET chk == UpdateAgentAccounts(agents[c], owner)
        r == IF chk # "Ok" THEN Err(chk, agents[c]) ELSE set_active(agents[c], is_active)
    IN /\ agents' = [agents EXCEPT ![c] = Commit(@, r)]
       /\ last' = Result("SetActive", r.err, r.event)
       /\ UNCHANGED <<lock_snapshot, staking_vars, fee_vars>>

(* Faulty variant: the account is left in place when the handler has returned Ok *)
CloseAgent_keeping(owner, c) ==
    LET chk == CloseAgentAccounts(agents[c], owner)
        r == IF chk # "Ok" THEN Err(chk, agents[c]) ELSE close_agent(agents[c])
    IN /\ agents' = [agents EXCEPT ![c] = Commit(@, r)]
       /\ last' = Result("CloseAgent", r.err, r.event)
       /\ UNCHANGED <<lock_snapshot, staking_vars, fee_vars>>

(* `close = recipient` destroys the account once the handler has returned Ok *)
CloseAgent(owner, c) ==
    LET chk == CloseAgentAccounts(agents[c], owner)
        r == IF chk # "Ok" THEN Err(chk, agents[c]) ELSE close_agent(agents[c])
    IN /\ agents' = [agents EXCEPT ![c] = IF r.err = "Ok" THEN NoAgent ELSE @]
       /\ last' = Result("CloseAgent", r.err, r.event)
       /\ UNCHANGED <<lock_snapshot, staking_vars, fee_vars>>

(* Faulty variant: the new owner is written to the agent's pool as well *)
TransferOwner_propagating(owner, c, new_owner) ==
    LET chk == UpdateAgentAccounts(agents[c], owner)
        r == IF chk # "Ok" THEN Err(chk, agents[c]) ELSE transfer_owner(agents[c], new_owner)
    IN /\ agents' = [agents EXCEPT ![c] = Commit(@, r)]
       /\ pools' = [pools EXCEPT ![c] = IF r.err = "Ok" /\ Exists(@)
                                        THEN [@ EXCEPT !.owner = new_owner] ELSE @]
       /\ last' = Result("TransferOwner", r.err, r.event)
       /\ UNCHANGED <<lock_snapshot, program_state, stakes, tokens, vaults, lamports, now,
                      fee_vars>>

TransferOwner(owner, c, new_owner) ==
    LET chk == UpdateAgentAccounts(agents[c], owner)
        r == IF chk # "Ok" THEN Err(chk, agents[c]) ELSE transfer_owner(agents[c], new_owner)
    IN /\ agents' = [agents EXCEPT ![c] = Commit(@, r)]
       /\ last' = Result("TransferOwner", r.err, r.event)
       /\ UNCHANGED <<lock_snapshot, staking_vars, fee_vars>>

-----------------------------------------------------------------------------
(* Staking actions *)

agent_vars == <<agents, lock_snapshot>>

InitProgramState(treasury) ==
    LET chk == InitProgramStateAccounts(program_state)
        r == IF chk # "Ok" THEN Err(chk, program_state) ELSE init_program_state(treasury)
    IN /\ program_state' = Commit(program_state, r)
       /\ last' = Result("InitProgramState", r.err, r.event)
       /\ UNCHANGED <<agent_vars, pools, stakes, tokens, vaults, lamports, now, fee_vars>>

CreateStakingPool(owner, a, min_stake_amount) ==
    LET chk == CreateStakingPoolAccounts(agents[a], pools[a], owner)
        r == IF chk # "Ok" THEN Err(chk, pools[a])
             ELSE create_staking_pool(a, owner, min_stake_amount, now)
    IN /\ pools' = [pools EXCEPT ![a] = Commit(@, r)]
       /\ last' = Result("CreateStakingPool", r.err, r.event)
       /\ UNCHANGED <<agent_vars, program_state, stakes, tokens, vaults, lamports, now,
                      fee_vars>>

UpdateMinStake(owner, a, new_min_stake_amount) ==
    LET chk == UpdateMinStakeAccounts(pools[a])
        r == IF chk # "Ok" THEN Err(chk, pools[a])
             ELSE update_min_stake(pools[a], owner, new_min_stake_amount)
    IN /\ pools' = [pools EXCEPT ![a] = Commit(@, r)]
       /\ last' = Result("UpdateMinStake", r.err, r.event)
       /\ UNCHANGED <<agent_vars, program_state, stakes, tokens, vaults, lamports, now,
                      fee_vars>>

InitStake(staker, a) ==
    LET chk == InitStakeAccounts(pools[a], stakes[<<staker, a>>])
        r == IF chk # "Ok" THEN Err(chk, stakes[<<staker, a>>])
             ELSE init_stake(pools[a], staker, now)
    IN /\ stakes' = [stakes EXCEPT ![<<staker, a>>] = Commit(@, r)]
       /\ last' = Result("InitStake", r.err, r.event)
       /\ UNCHANGED <<agent_vars, program_state, pools, tokens, vaults, lamports, now,
                      fee_vars>>

(* Faulty variant: the pool written is always the first agent's *)
CommitStake_first_pool(r, staker, seed_staker, a) ==
    IF r.err = "Ok"
    THEN /\ pools' = [pools EXCEPT ![1] = r.pool]
         /\ stakes' = [stakes EXCEPT ![<<seed_staker, a>>] = r.stake_acc]
         /\ tokens' = [tokens EXCEPT ![staker] = r.staker_tokens]
         /\ vaults' = [vaults EXCEPT ![a] = r.vault_tokens]
         /\ lamports' = r.balances
    ELSE UNCHANGED <<pools, stakes, tokens, vaults, lamports>>

(* Faulty variant: what the handler wrote before it failed is kept *)
CommitStake_partial(r, staker, seed_staker, a) ==
    /\ pools' = [pools EXCEPT ![a] = r.pool]
    /\ stakes' = [stakes EXCEPT ![<<seed_staker, a>>] = r.stake_acc]
    /\ tokens' = [tokens EXCEPT ![staker] = r.staker_tokens]
    /\ vaults' = [vaults EXCEPT ![a] = r.vault_tokens]
    /\ lamports' = r.balances

(* What a staking instruction's result commits; nothing when it failed *)
CommitStake(r, staker, seed_staker, a) ==
    IF r.err = "Ok"
    THEN /\ pools' = [pools EXCEPT ![a] = r.pool]
         /\ stakes' = [stakes EXCEPT ![<<seed_staker, a>>] = r.stake_acc]
         /\ tokens' = [tokens EXCEPT ![staker] = r.staker_tokens]
         /\ vaults' = [vaults EXCEPT ![a] = r.vault_tokens]
         /\ lamports' = r.balances
    ELSE UNCHANGED <<pools, stakes, tokens, vaults, lamports>>

(* `staker` signs; the stake account passed is the one at
   ["stake_account", seed_staker, a] *)
Stake(staker, seed_staker, a, amount) ==
    LET pool == pools[a]
        stake_acc == stakes[<<seed_staker, a>>]
        chk == StakeAccounts(pool, stake_acc, seed_staker, staker)
        r == IF chk # "Ok"
             THEN StakeOut(chk, pool, stake_acc, tokens[staker], vaults[a], lamports,
                           0, "none")
             ELSE stake(pool, stake_acc, staker, amount, tokens[staker], vaults[a],
                        lamports, now)
    IN /\ CommitStake(r, staker, seed_staker, a)
       /\ last' = Result("Stake", r.err, r.event)
       /\ UNCHANGED <<agent_vars, program_state, now, fee_vars>>

WithdrawStake(staker, seed_staker, a) ==
    LET pool == pools[a]
        stake_acc == stakes[<<seed_staker, a>>]
        chk == WithdrawStakeAccounts(program_state, pool, stake_acc, seed_staker, staker)
        r == IF chk # "Ok"
             THEN StakeOut(chk, pool, stake_acc, tokens[staker], vaults[a], lamports,
                           0, "none")
             ELSE withdraw_stake(pool, program_state, stake_acc, staker, tokens[staker],
                                 vaults[a], lamports, now)
    IN /\ CommitStake(r, staker, seed_staker, a)
       /\ last' = Result("WithdrawStake", r.err, r.event)
       /\ UNCHANGED <<agent_vars, program_state, now, fee_vars>>

(* The same two instructions with the unchecked staker_token_account made
   explicit: the staker's own token account, or (NullKey) an account that is not
   a token account of the mint, on which the token program's transfer fails *)
NoTokenAccount == -1
TokenBalance(staker_token_account) ==
    IF staker_token_account = NullKey THEN NoTokenAccount ELSE tokens[staker_token_account]

StakeFrom(staker, a, amount, staker_token_account) ==
    LET pool == pools[a]
        stake_acc == stakes[<<staker, a>>]
        balance == TokenBalance(staker_token_account)
        chk == StakeAccounts(pool, stake_acc, staker, staker)
        r == IF chk # "Ok"
             THEN StakeOut(chk, pool, stake_acc, balance, vaults[a], lamports, 0, "none")
             ELSE stake(pool, stake_acc, staker, amount, balance, vaults[a], lamports, now)
    IN /\ staker_token_account \in {staker, NullKey}
       /\ CommitStake(r, staker, staker, a)
       /\ last' = Result("Stake", r.err, r.event)
       /\ UNCHANGED <<agent_vars, program_state, now, fee_vars>>

WithdrawStakeTo(staker, a, staker_token_account) ==
    LET pool == pools[a]
        stake_acc == stakes[<<staker, a>>]
        balance == TokenBalance(staker_token_account)
        chk == WithdrawStakeAccounts(program_state, pool, stake_acc, staker, staker)
        r == IF chk # "Ok"
             THEN StakeOut(chk, pool, stake_acc, balance, vaults[a], lamports, 0, "none")
             ELSE withdraw_stake(pool, program_state, stake_acc, staker, balance,
                                 vaults[a], lamports, now)
    IN /\ staker_token_account \in {staker, NullKey}
       /\ CommitStake(r, staker, staker, a)
       /\ last' = Result("WithdrawStake", r.err, r.event)
       /\ UNCHANGED <<agent_vars, program_state, now, fee_vars>>

(* The clock advances, half a decay window at a time *)
TickStep == DEFAULT_DECAY_DURATION \div 2

Tick ==
    /\ now + TickStep <= MaxTime
    /\ now' = now + TickStep
    /\ UNCHANGED <<agent_vars, program_state, pools, stakes, tokens, vaults, lamports,
                   last, fee_vars>>

-----------------------------------------------------------------------------
(* The agent registry: every registry instruction on the agent of creator 1,
   called by either key *)

CardIpfs == IPFS \o <<98>>
CardFull == Pad(HTTPS, MAX_URI)
CardHttp == HTTP \o <<97>>
CardLong == Pad(HTTPS, MAX_URI + 1)
CardUris == {<<>>, CardIpfs, CardFull, CardHttp, CardLong}
CardHashes == {Hash(1)}

NoBool == NoneOf(FALSE)
NoMode == NoneOf(0)
NoPtr == NoneOf(<<>>)
NoHash == NoneOf(ZeroHash)
HasStakingArgs == {NoBool, Some(TRUE), Some(FALSE)}

UrlPtr == HTTPS \o <<109>>
BadUrlPtr == HTTP \o <<109>>
CidPtr == Pad(BAFY, 8)
IpnsPtr == <<107, 53, 49>>

(* <<mode, ptr, hash>> arguments of set_memory *)
SetMemoryArgs ==
    { <<0, <<>>, NoHash>>,
      <<1, CidPtr, NoHash>>,
      <<3, UrlPtr, Some(Hash(2))>>,
      <<3, BadUrlPtr, Some(Hash(2))>>,
      <<2, IpnsPtr, NoHash>>,
      <<5, IpnsPtr, Some(Hash(2))>> }

(* <<memory_mode, memory_ptr, memory_hash>> arguments of create_agent *)
CreateMemoryArgs ==
    { <<NoMode, NoPtr, NoHash>>,
      <<Some(3), Some(UrlPtr), Some(Hash(2))>>,
      <<Some(4), Some(IpnsPtr), Some(Hash(2))>>,
      <<Some(1), NoPtr, NoHash>>,
      <<NoMode, Some(IpnsPtr), NoHash>> }

NextAgent ==
    \E c \in Creators :
        \/ \E s \in Keys, u \in CardUris, h \in CardHashes,
              hs \in HasStakingArgs, m \in CreateMemoryArgs :
              CreateAgent(s, c, u, h, hs, m[1], m[2], m[3])
        \/ \E s \in Keys, u \in CardUris, h \in CardHashes : SetCard(s, c, u, h)
        \/ \E s \in Keys, m \in SetMemoryArgs : SetMemory(s, c, m[1], m[2], m[3])
        \/ \E s \in Keys : LockMemory(s, c)
        \/ \E s \in Keys, b \in BOOLEAN : SetActive(s, c, b)
        \/ \E s \in Keys : CloseAgent(s, c)
        \/ \E s \in Keys, n \in Keys \cup {NullKey} : TransferOwner(s, c, n)

SpecAgent == Init /\ [][NextAgent]_vars

-----------------------------------------------------------------------------
(* The staking ledger of one agent: the agent, the fee configuration, its pool and
   the positions of two stakers, at a fixed clock reading *)

Amounts == 0..MaxAmount
MinStakes == 0..MaxAmount

Next ==
    \/ \E s \in Keys, c \in Creators, hs \in {NoBool, Some(FALSE)} :
          CreateAgent(s, c, CardIpfs, Hash(1), hs, NoMode, NoPtr, NoHash)
    \/ InitProgramState(TreasuryKey)
    \/ \E s \in Keys, a \in Creators, m \in MinStakes : CreateStakingPool(s, a, m)
    \/ \E s \in Keys, a \in Creators, m \in MinStakes : UpdateMinStake(s, a, m)
    \/ \E s \in Keys, a \in Creators : InitStake(s, a)
    \/ \E s \in Keys, p \in Keys, a \in Creators, n \in Amounts : Stake(s, p, a, n)
    \/ \E s \in Keys, p \in Keys, a \in Creators : WithdrawStake(s, p, a)

Spec == Init /\ [][Next]_vars

-----------------------------------------------------------------------------
(* The fee calculator on its own: a fee configuration drawn at the start, and
   calculate_unstake_fee called on it at elapsed times that never go back *)

FeeValues == 0..MaxFee \cup {U64_MAX}
Durations == 0..MaxDuration \cup {U32_MAX}
ElapsedValues == 0..MaxElapsed \cup {U64_MAX}

FeeConfigs ==
    [exists : {TRUE},
     fee_immediate_lamports : FeeValues,
     fee_regular_lamports : FeeValues,
     fee_max_lamports : FeeValues,
     decay_duration_seconds : Durations,
     treasury : {TreasuryKey}]

InitFee ==
    /\ InitAccounts
    /\ fee_in \in [elapsed_secs : {0}, state : FeeConfigs]
    /\ fee_out = NoCall
    /\ fee_prev = NoPrevCall

CalculateUnstakeFee(elapsed_secs) ==
    /\ fee_out.err = "none" \/ elapsed_secs > fee_in.elapsed_secs
    /\ fee_prev' = [elapsed_secs |-> fee_in.elapsed_secs,
                    err |-> fee_out.err, fee |-> fee_out.fee]
    /\ fee_in' = [fee_in EXCEPT !.elapsed_secs = elapsed_secs]
    /\ fee_out' = calculate_unstake_fee(elapsed_secs, fee_in.state)
    /\ UNCHANGED <<agent_vars, staking_vars, last>>

NextFee == \E e \in ElapsedValues : CalculateUnstakeFee(e)

SpecFee == InitFee /\ [][NextFee]_vars

-----------------------------------------------------------------------------
(* The memory fields on their own: create_agent and set_memory with arguments on
   both sides of every rule of the mode table, and lock_memory *)

QmPtr == Pad(QM, 46)
ShortQmPtr == Pad(QM, 45)
BadCidPtr == BAFY \o <<49>>
LongCidPtr == Pad(BAFY, 97)
LongPtr == Pad(IpnsPtr, 97)
BinaryPtr == <<255>>
BadUtf8UrlPtr == HTTPS \o <<255>>

SetMemoryTableArgs ==
    { <<0, <<>>, NoHash>>,
      <<0, <<>>, Some(ZeroHash)>>,
      <<0, IpnsPtr, NoHash>>,
      <<0, <<>>, Some(Hash(2))>>,
      <<1, CidPtr, NoHash>>,
      <<1, QmPtr, Some(ZeroHash)>>,
      <<1, ShortQmPtr, NoHash>>,
      <<1, BadCidPtr, NoHash>>,
      <<1, IpnsPtr, NoHash>>,
      <<1, CidPtr, Some(Hash(2))>>,
      <<1, <<>>, NoHash>>,
      <<1, LongCidPtr, NoHash>>,
      <<2, IpnsPtr, Some(Hash(2))>>,
      <<2, IpnsPtr, NoHash>>,
      <<2, IpnsPtr, Some(ZeroHash)>>,
      <<2, <<>>, Some(Hash(2))>>,
      <<2, LongPtr, Some(Hash(2))>>,
      <<4, IpnsPtr, Some(Hash(2))>>,
      <<4, <<>>, Some(Hash(2))>>,
      <<3, UrlPtr, Some(Hash(2))>>,
      <<3, BadUrlPtr, Some(Hash(2))>>,
      <<3, UrlPtr, NoHash>>,
      <<3, BadUtf8UrlPtr, Some(Hash(2))>>,
      <<5, IpnsPtr, Some(Hash(2))>> }

CreateMemoryTableArgs ==
    CreateMemoryArgs \cup
    { <<Some(1), Some(CidPtr), NoHash>>,
      <<Some(1), Some(IpnsPtr), Some(Hash(2))>>,
      <<Some(0), Some(IpnsPtr), NoHash>>,
      <<Some(2), Some(IpnsPtr), NoHash>>,
      <<Some(3), Some(UrlPtr), NoHash>>,
      <<Some(3), Some(BadUrlPtr), Some(Hash(2))>>,
      <<Some(3), Some(BadUtf8UrlPtr), Some(Hash(2))>>,
      <<Some(3), Some(BinaryPtr), Some(Hash(2))>>,
      <<Some(2), Some(<<>>), Some(Hash(2))>>,
      <<Some(2), Some(LongPtr), Some(Hash(2))>>,
      <<Some(4), Some(<<>>), Some(Hash(2))>>,
      <<Some(5), Some(IpnsPtr), Some(Hash(2))>> }

NextMemory ==
    \E c \in Creators :
        \/ \E s \in Keys, m \in CreateMemoryTableArgs :
              CreateAgent(s, c, CardIpfs, Hash(1), NoBool, m[1], m[2], m[3])
        \/ \E s \in Keys, m \in SetMemoryTableArgs : SetMemory(s, c, m[1], m[2], m[3])
        \/ \E s \in Keys : LockMemory(s, c)

SpecMemory == Init /\ [][NextMemory]_vars

-----------------------------------------------------------------------------
(* Pools and ownership: an agent that changes hands, its pool, and stakes that
   make the pool's counters non-zero *)

NextPool ==
    \E a \in Creators :
        \/ \E s \in Keys, hs \in HasStakingArgs :
              CreateAgent(s, a, CardIpfs, Hash(1), hs, NoMode, NoPtr, NoHash)
        \/ \E s \in Keys, n \in Keys : TransferOwner(s, a, n)
        \/ \E s \in Keys, m \in MinStakes : CreateStakingPool(s, a, m)
        \/ \E s \in Keys, m \in MinStakes : UpdateMinStake(s, a, m)
        \/ \E s \in Keys : InitStake(s, a)
        \/ \E s \in Keys, n \in Amounts : Stake(s, s, a, n)

SpecPool == Init /\ [][NextPool]_vars

-----------------------------------------------------------------------------
(* One position under a running clock: key 2 stakes in the pool of agent 1 and
   withdraws at different times, and key 1 tries to use the same position *)

ClockStaker == 2

NextClock ==
    \E a \in Creators :
        \/ CreateAgent(a, a, CardIpfs, Hash(1), NoBool, NoMode, NoPtr, NoHash)
        \/ InitProgramState(TreasuryKey)
        \/ CreateStakingPool(a, a, 1)
        \/ InitStake(ClockStaker, a)
        \/ \E s \in Keys, n \in Amounts : Stake(s, ClockStaker, a, n)
        \/ \E s \in Keys : WithdrawStake(s, ClockStaker, a)
        \/ Tick

SpecClock == Init /\ [][NextClock]_vars

-----------------------------------------------------------------------------
(* Failures and fees: one position under a running clock, with a treasury that is
   a third party or the staker, cards that pass or fail validation, and token
   accounts on which the token program's transfer succeeds or fails *)

Treasuries == {TreasuryKey, ClockStaker}

NextAtomic ==
    \E a \in Creators :
        \/ \E u \in {CardIpfs, CardHttp} :
              CreateAgent(a, a, u, Hash(1), NoBool, NoMode, NoPtr, NoHash)
        \/ \E t \in Treasuries : InitProgramState(t)
        \/ \E m \in {0, 1} : CreateStakingPool(a, a, m)
        \/ InitStake(ClockStaker, a)
        \/ \E s \in Keys, n \in Amounts : \E t \in {s, NullKey} : StakeFrom(s, a, n, t)
        \/ \E s \in Keys : \E t \in {s, NullKey} : WithdrawStakeTo(s, a, t)
        \/ Tick

SpecAtomic == Init /\ [][NextAtomic]_vars

-----------------------------------------------------------------------------
(* Two agents, each with a pool, and two stakers who may hold a position in
   either; the clock stands still *)

NextShared ==
    \E a \in Keys :
        \/ CreateAgent(a, a, CardIpfs, Hash(1), NoBool, NoMode, NoPtr, NoHash)
        \/ InitProgramState(TreasuryKey)
        \/ CreateStakingPool(a, a, 1)
        \/ \E s \in Keys : InitStake(s, a)
        \/ \E s \in Keys : Stake(s, s, a, 1)
        \/ \E s \in Keys : WithdrawStake(s, s, a)

SpecShared == Init /\ [][NextShared]_vars

-----------------------------------------------------------------------------
(* An agent's life next to its pool: the agent is created with or without the
   staking flag, deactivated, locked, handed over and closed while its pool is
   created, retuned, staked into and withdrawn from by one staker (the agent's
   creator); the clock stands still *)

NextLifecycle ==
    \E a \in Creators :
        \/ \E hs \in HasStakingArgs :
              CreateAgent(a, a, CardIpfs, Hash(1), hs, NoMode, NoPtr, NoHash)
        \/ \E s \in Keys, b \in BOOLEAN : SetActive(s, a, b)
        \/ \E s \in Keys : LockMemory(s, a)
        \/ \E s \in Keys : CloseAgent(s, a)
        \/ \E s \in Keys, n \in Keys : TransferOwner(s, a, n)
        \/ InitProgramState(TreasuryKey)
        \/ \E s \in Keys : CreateStakingPool(s, a, 1)
        \/ \E s \in Keys, m \in {1, 2} : UpdateMinStake(s, a, m)
        \/ InitStake(a, a)
        \/ \E n \in {1, 2} : Stake(a, a, a, n)
        \/ WithdrawStake(a, a, a)

SpecLifecycle == Init /\ [][NextLifecycle]_vars

-----------------------------------------------------------------------------
(* Two stakers on one pool, with a treasury that is a third party or one of the
   stakers; the clock stands still *)

StakerOps == {<<"Stake", 1>>, <<"Stake", 2>>, <<"WithdrawStake", 0>>}

NextCommute ==
    \E a \in Creators :
        \/ CreateAgent(a, a, CardIpfs, Hash(1), NoBool, NoMode, NoPtr, NoHash)
        \/ \E t \in Treasuries : InitProgramState(t)
        \/ \E m \in {1, 2} : CreateStakingPool(a, a, m)
        \/ \E s \in Keys : InitStake(s, a)
        \/ \E s \in Keys, n \in {1, 2} : Stake(s, s, a, n)
        \/ \E s \in Keys : WithdrawStake(s, s, a)

SpecCommute == Init /\ [][NextCommute]_vars

-----------------------------------------------------------------------------
(* Properties *)

Locked(agent) == Exists(agent) /\ HasFlag(agent.flags, FLAG_LOCKED)
StakedAmount(s, a) ==
    IF Exists(stakes[<<s, a>>]) THEN stakes[<<s, a>>].staked_amount ELSE 0

RECURSIVE SumStaked(_, _)
SumStaked(S, a) ==
    IF S = {} THEN 0
    ELSE LET s == CHOOSE x \in S : TRUE
         IN StakedAmount(s, a) + SumStaked(S \ {s}, a)

(* C1.  Stake accounting: in every reachable state the pool's total_staked equals
   the sum of staked_amount over the positions of that pool. *)
StakeAccounting ==
    \A a \in Keys : Exists(pools[a]) => pools[a].total_staked = SumStaked(Keys, a)

(* One staker has withdrawn while the other still holds a stake *)
StakeAccountingWitness ==
    /\ last.op = "WithdrawStake" /\ last.err = "Ok"
    /\ \E s \in Keys : StakedAmount(s, 1) > 0
    /\ \E s \in Keys : Exists(stakes[<<s, 1>>]) /\ StakedAmount(s, 1) = 0

(* C2, as amended.  Lock monotonicity for the life of the record: a step from a
   locked record never leaves a record with LOCKED clear, and every SetMemory call
   on a locked record fails and changes nothing, with MemoryLocked when the owner
   calls (any other caller is turned away with Unauthorized). *)
LockMonotone ==
    [][\A c \in Keys :
          Locked(agents[c]) =>
              /\ Exists(agents'[c]) => Locked(agents'[c])
              /\ \A s \in Keys, m \in SetMemoryArgs :
                    (last'.op = "SetMemory" /\ SetMemory(s, c, m[1], m[2], m[3])) =>
                        /\ last'.err = IF s = agents[c].owner
                                       THEN "MemoryLocked" ELSE "Unauthorized"
                        /\ agents' = agents]_vars

(* The owner's SetMemory has been refused on a locked record *)
LockMonotoneWitness ==
    /\ Locked(agents[1])
    /\ last.op = "SetMemory" /\ last.err = "MemoryLocked"

(* C2, as stated.  Once LockMemory has succeeded on an agent, the record at its
   address has LOCKED set in every later state, and no later SetMemory succeeds. *)
LockPermanent ==
    \A c \in Keys :
        lock_snapshot[c].taken =>
            /\ Exists(agents[c]) => Locked(agents[c])
            /\ last.op = "SetMemory" => last.err # "Ok"

(* C3, as amended.  Memory freeze for the life of the record: a step from a locked
   record to a record leaves memory_mode, memory_ptr_len, memory_ptr and memory_hash
   as they were. *)
MemoryFrozen ==
    [][\A c \in Keys :
          (Locked(agents[c]) /\ Exists(agents'[c])) =>
              Memory(agents'[c]) = Memory(agents[c])]_vars

(* A locked record with a Url memory, after a refused SetMemory *)
MemoryFrozenWitness ==
    /\ Locked(agents[1])
    /\ agents[1].memory_mode = 3
    /\ lock_snapshot[1].taken /\ lock_snapshot[1].memory = Memory(agents[1])
    /\ last.op = "SetMemory" /\ last.err # "Ok"

(* C3, as stated.  From the state in which LOCKED was set, the memory fields of the
   agent have the values they had then, in every later state. *)
MemoryFrozenForever ==
    \A c \in Keys :
        (lock_snapshot[c].taken /\ Exists(agents[c])) =>
            Memory(agents[c]) = lock_snapshot[c].memory

(* C4.  Close guard: CloseAgent called by the current owner succeeds, and removes
   the record, exactly when ACTIVE and HAS_STAKING are both clear; otherwise it
   fails with AgentActive when ACTIVE is set, with StakingEnabled when only
   HAS_STAKING is set, and the record is unchanged. *)
CloseGuard ==
    [][\A s \in Keys, c \in Keys :
          (/\ last'.op = "CloseAgent"
           /\ Exists(agents[c]) /\ s = agents[c].owner
           /\ CloseAgent(s, c)) =>
              IF ~HasFlag(agents[c].flags, FLAG_ACTIVE)
                 /\ ~HasFlag(agents[c].flags, FLAG_HAS_STAKING)
              THEN last'.err = "Ok" /\ agents'[c] = NoAgent
              ELSE /\ last'.err = IF HasFlag(agents[c].flags, FLAG_ACTIVE)
                                  THEN "AgentActive" ELSE "StakingEnabled"
                   /\ agents' = agents]_vars

(* A close refused for the staking flag alone, the record still there *)
CloseGuardWitness ==
    /\ last.op = "CloseAgent" /\ last.err = "StakingEnabled"
    /\ Exists(agents[1]) /\ ~HasFlag(agents[1].flags, FLAG_ACTIVE)

(* C5.  Minimum-stake gate: a Stake of an amount with 0 < amount < min_stake_amount
   by the staker of a position that holds nothing fails with BelowMinimumStake, and
   no account and no balance changes. *)
MinStakeGate ==
    [][\A s \in Keys, a \in Keys, n \in Amounts :
          (/\ last'.op = "Stake"
           /\ Exists(pools[a]) /\ Exists(stakes[<<s, a>>])
           /\ stakes[<<s, a>>].staked_amount = 0
           /\ 0 < n /\ n < pools[a].min_stake_amount
           /\ Stake(s, s, a, n)) =>
              /\ last'.err = "BelowMinimumStake"
              /\ UNCHANGED <<pools, stakes, tokens, vaults, lamports>>]_vars

(* A first stake has been refused by the gate although the staker held the tokens *)
MinStakeGateWitness ==
    /\ last.op = "Stake" /\ last.err = "BelowMinimumStake"
    /\ \E s \in Keys : Exists(stakes[<<s, 1>>]) /\ StakedAmount(s, 1) = 0
                       /\ tokens[s] >= pools[1].min_stake_amount

(* C6, as amended.  Top-up: a Stake of an amount > 0 by the staker of a position
   that already holds a stake succeeds whatever min_stake_amount is, adds the
   amount to the position and leaves staker_count alone, provided the staker's
   token account holds the amount; when it does not, the token transfer fails and
   nothing changes. *)
TopUp ==
    [][\A s \in Keys, a \in Keys, n \in Amounts :
          (/\ last'.op = "Stake"
           /\ Exists(pools[a]) /\ Exists(stakes[<<s, a>>])
           /\ stakes[<<s, a>>].staked_amount > 0
           /\ n > 0
           /\ Stake(s, s, a, n)) =>
              IF n <= tokens[s]
              THEN /\ last'.err = "Ok"
                   /\ stakes'[<<s, a>>].staked_amount = stakes[<<s, a>>].staked_amount + n
                   /\ pools'[a].staker_count = pools[a].staker_count
              ELSE /\ last'.err = "InsufficientFunds"
                   /\ UNCHANGED <<pools, stakes, tokens, vaults, lamports>>]_vars

(* A stake has succeeded that left the only position below min_stake_amount: it was
   a top-up below a minimum raised after the first stake *)
TopUpWitness ==
    /\ last.op = "Stake" /\ last.err = "Ok"
    /\ pools[1].staker_count = 1
    /\ \E s \in Keys :
          /\ StakedAmount(s, 1) > 0
          /\ StakedAmount(s, 1) < pools[1].min_stake_amount
          /\ \A t \in Keys \ {s} : StakedAmount(t, 1) = 0

(* C6, as stated.  A Stake of any amount > 0 by the staker of a position that
   already holds a stake succeeds and does not increment staker_count. *)
TopUpAlwaysSucceeds ==
    [][\A s \in Keys, a \in Keys, n \in Amounts :
          (/\ last'.op = "Stake"
           /\ Exists(pools[a]) /\ Exists(stakes[<<s, a>>])
           /\ stakes[<<s, a>>].staked_amount > 0
           /\ n > 0
           /\ Stake(s, s, a, n)) =>
              /\ last'.err = "Ok"
              /\ pools'[a].staker_count = pools[a].staker_count]_vars

(* The reference definition of the decayed fee, over the unbounded integers *)
Monus(a, b) == IF a > b THEN a - b ELSE 0
Floor(a, b) == CHOOSE q \in 0..a : q * b <= a /\ a < (q + 1) * b
decayFeeReference(elapsed, cfg) ==
    IF elapsed >= cfg.decay_duration_seconds
    THEN Min(cfg.fee_regular_lamports, cfg.fee_max_lamports)
    ELSE Min(Monus(cfg.fee_immediate_lamports,
                   Floor(Monus(cfg.fee_immediate_lamports, cfg.fee_regular_lamports)
                             * elapsed,
                         cfg.decay_duration_seconds)),
             cfg.fee_max_lamports)

(* C7.  For every configuration with decay_duration_seconds > 0 and every elapsed
   time, calculate_unstake_fee returns the reference value: min(regular, max) from
   the end of the window on, and before it min(immediate - floor((immediate -
   regular) * elapsed / duration), max) with saturating subtractions; at elapsed 0
   that is min(immediate, max). *)
FeeMatchesReference ==
    (fee_out.err # "none" /\ fee_in.state.decay_duration_seconds > 0) =>
        /\ fee_out = FeeOk(decayFeeReference(fee_in.elapsed_secs, fee_in.state))
        /\ fee_in.elapsed_secs = 0 =>
              fee_out.fee = Min(fee_in.state.fee_immediate_lamports,
                                fee_in.state.fee_max_lamports)

(* A fee strictly between the regular and the immediate fee, inside the window *)
FeeMatchesReferenceWitness ==
    /\ fee_out.err = "Ok"
    /\ 0 < fee_in.elapsed_secs
    /\ fee_in.elapsed_secs < fee_in.state.decay_duration_seconds
    /\ fee_in.state.fee_regular_lamports < fee_out.fee
    /\ fee_out.fee < fee_in.state.fee_immediate_lamports

(* C8, as amended.  For a fixed configuration with decay_duration_seconds > 0 and
   fee_regular_lamports <= fee_immediate_lamports, the fee never rises as the
   elapsed time grows, the end of the window included. *)
DecayMonotone ==
    (/\ fee_prev.err = "Ok" /\ fee_out.err = "Ok"
     /\ fee_prev.elapsed_secs <= fee_in.elapsed_secs
     /\ fee_in.state.decay_duration_seconds > 0
     /\ fee_in.state.fee_regular_lamports <= fee_in.state.fee_immediate_lamports) =>
        fee_out.fee <= fee_prev.fee

(* The fee has dropped between a call inside the window and a call after it *)
DecayMonotoneWitness ==
    /\ fee_prev.err = "Ok" /\ fee_out.err = "Ok"
    /\ fee_prev.elapsed_secs < fee_in.state.decay_duration_seconds
    /\ fee_in.state.decay_duration_seconds <= fee_in.elapsed_secs
    /\ fee_in.state.fee_regular_lamports <= fee_in.state.fee_immediate_lamports
    /\ fee_out.fee < fee_prev.fee

(* C8, as stated.  For every fixed configuration with decay_duration_seconds > 0
   the fee never rises as the elapsed time grows. *)
DecayMonotoneEveryConfig ==
    (/\ fee_prev.err = "Ok" /\ fee_out.err = "Ok"
     /\ fee_prev.elapsed_secs <= fee_in.elapsed_secs
     /\ fee_in.state.decay_duration_seconds > 0) =>
        fee_out.fee <= fee_prev.fee

BadLength(card_uri) == Len(card_uri) = 0 \/ Len(card_uri) > 96
BadScheme(card_uri) ==
    ~BadLength(card_uri) /\ ~starts_with(card_uri, HTTPS) /\ ~starts_with(card_uri, IPFS)

(* C9.  Card invariant: every record that exists has card_uri_len between 1 and 96
   and a card_uri that starts with https:// or ipfs://. *)
CardInvariant ==
    \A c \in Keys :
        Exists(agents[c]) =>
            /\ agents[c].card_uri_len >= 1 /\ agents[c].card_uri_len <= 96
            /\ LET uri == SubSeq(agents[c].card_uri, 1, agents[c].card_uri_len)
               IN starts_with(uri, HTTPS) \/ starts_with(uri, IPFS)

(* A record holding a card of the full 96 bytes, after a refused SetCard *)
CardInvariantWitness ==
    /\ Exists(agents[1]) /\ agents[1].card_uri_len = 96
    /\ last.op = "SetCard" /\ last.err = "InsecureUrl"

BadCards == {u \in CardUris : BadLength(u) \/ BadScheme(u)}

(* What C10 says of one call: the card decides the error, and no record changes *)
CardRejected(card_uri) ==
    /\ last'.err = IF BadLength(card_uri) THEN "InvalidLength" ELSE "InsecureUrl"
    /\ agents' = agents

(* C10, as amended.  SetCard by the owner rejects a card of length 0 or more than 96
   with InvalidLength and a card of valid length with another scheme with
   InsecureUrl.  CreateAgent by the creator on a free address rejects such a card
   too and creates no record, with those errors when its memory arguments are valid;
   its memory arguments are validated first, and when they are invalid the call
   fails with their error instead. *)
CardRejection ==
    [][/\ last'.op = "SetCard" =>
            \A c \in Creators, u \in BadCards, h \in CardHashes :
                (Exists(agents[c]) /\ SetCard(agents[c].owner, c, u, h)) =>
                    CardRejected(u)
       /\ last'.op = "CreateAgent" =>
            \A c \in Creators, u \in BadCards, h \in CardHashes,
               hs \in HasStakingArgs, m \in CreateMemoryArgs :
                (~Exists(agents[c]) /\ CreateAgent(c, c, u, h, hs, m[1], m[2], m[3])) =>
                    LET mem == create_agent_memory(FreshAgent, m[1], m[2], m[3])
                    IN IF mem.err = "Ok" THEN CardRejected(u)
                       ELSE last'.err = mem.err /\ agents' = agents]_vars

(* A CreateAgent refused for its card, no record created *)
CardRejectionWitness ==
    /\ last.op = "CreateAgent" /\ last.err = "InsecureUrl"
    /\ ~Exists(agents[1])

(* C10, as stated.  SetCard by the owner and CreateAgent by the creator on a free
   address reject every card of length 0 or more than 96 with InvalidLength and
   every card of valid length with another scheme with InsecureUrl, and change or
   create no record. *)
CardRejectionEveryCall ==
    [][/\ last'.op = "SetCard" =>
            \A c \in Creators, u \in BadCards, h \in CardHashes :
                (Exists(agents[c]) /\ SetCard(agents[c].owner, c, u, h)) =>
                    CardRejected(u)
       /\ last'.op = "CreateAgent" =>
            \A c \in Creators, u \in BadCards, h \in CardHashes,
               hs \in HasStakingArgs, m \in CreateMemoryArgs :
                (~Exists(agents[c]) /\ CreateAgent(c, c, u, h, hs, m[1], m[2], m[3])) =>
                    CardRejected(u)]_vars

(* The mode table, as the specification words it *)
HashAbsentOrZero(hash_opt) == ~hash_opt.some \/ hash_opt.val = ZeroHash
HashPresentNonZero(hash_opt) == hash_opt.some /\ hash_opt.val # ZeroHash
ShapeValidCid(ptr) ==
    \/ starts_with(ptr, QM) /\ Len(ptr) = 46 /\ \A i \in 1..Len(ptr) : IsBase58(ptr[i])
    \/ starts_with(ptr, BAFY) /\ \A i \in 1..Len(ptr) : IsBase32(ptr[i])
TableAccepts(mode, ptr, hash_opt) ==
    CASE mode = 0 -> Len(ptr) = 0 /\ HashAbsentOrZero(hash_opt)
      [] mode = 1 -> /\ Len(ptr) > 0 /\ Len(ptr) <= 96
                     /\ ShapeValidCid(ptr) /\ HashAbsentOrZero(hash_opt)
      [] mode = 2 \/ mode = 4 -> Len(ptr) > 0 /\ HashPresentNonZero(hash_opt)
      [] mode = 3 -> /\ Len(ptr) > 0 /\ HashPresentNonZero(hash_opt)
                     /\ starts_with(ptr, HTTPS)
      [] OTHER -> FALSE

(* What an accepted SetMemory(mode, ptr, hash_opt) leaves in the record *)
MemoryWritten(mode, ptr, hash_opt) ==
    <<mode,
      IF mode = 0 THEN 0 ELSE Len(ptr),
      IF mode = 0 THEN Zeros(96) ELSE [i \in 1..96 |-> IF i <= Len(ptr) THEN ptr[i] ELSE 0],
      IF mode = 0 \/ mode = 1 THEN ZeroHash ELSE hash_opt.val>>

(* C11, as amended.  SetMemory by the owner on an unlocked record accepts exactly
   the combinations of the mode table whose pointer is at most 96 bytes and, for
   Url, valid UTF-8, and then writes mode, pointer and hash (zero for None and
   Cid).  It rejects a pointer of more than 96 bytes with InvalidLength, a Url
   pointer that is text without the https:// prefix (next to a non-zero hash) with
   InsecureUrl, and everything else with InvalidMemoryFields; a rejected call
   changes nothing. *)
MemoryTable ==
    [][last'.op = "SetMemory" =>
          \A c \in Creators, m \in SetMemoryTableArgs :
              (/\ Exists(agents[c]) /\ ~Locked(agents[c])
               /\ SetMemory(agents[c].owner, c, m[1], m[2], m[3])) =>
                  IF /\ TableAccepts(m[1], m[2], m[3])
                     /\ Len(m[2]) <= 96
                     /\ m[1] = 3 => from_utf8_ok(m[2])
                  THEN /\ last'.err = "Ok"
                       /\ Memory(agents'[c]) = MemoryWritten(m[1], m[2], m[3])
                  ELSE /\ agents' = agents
                       /\ last'.err =
                            IF Len(m[2]) > 96 THEN "InvalidLength"
                            ELSE IF /\ m[1] = 3 /\ Len(m[2]) > 0
                                    /\ HashPresentNonZero(m[3]) /\ from_utf8_ok(m[2])
                            THEN "InsecureUrl"
                            ELSE "InvalidMemoryFields"]_vars

(* A Qm CID has been accepted and its hash forced to zero *)
MemoryTableWitness ==
    /\ last.op = "SetMemory" /\ last.err = "Ok"
    /\ agents[1].memory_mode = 1 /\ agents[1].memory_ptr_len = 46
    /\ agents[1].memory_hash = ZeroHash

(* C11, as stated.  SetMemory by the owner on an unlocked record accepts exactly
   the combinations of the mode table and rejects all others with
   InvalidMemoryFields or InsecureUrl. *)
MemoryTableExact ==
    [][last'.op = "SetMemory" =>
          \A c \in Creators, m \in SetMemoryTableArgs :
              (/\ Exists(agents[c]) /\ ~Locked(agents[c])
               /\ SetMemory(agents[c].owner, c, m[1], m[2], m[3])) =>
                  IF TableAccepts(m[1], m[2], m[3])
                  THEN last'.err = "Ok"
                  ELSE /\ agents' = agents
                       /\ last'.err \in {"InvalidMemoryFields", "InsecureUrl"}]_vars

(* The shape rules of the mode table, read off a record *)
MemoryShapeOk(agent) ==
    LET ptr == SubSeq(agent.memory_ptr, 1, agent.memory_ptr_len)
    IN CASE agent.memory_mode = 0 ->
                agent.memory_ptr_len = 0 /\ agent.memory_hash = ZeroHash
         [] agent.memory_mode = 1 ->
                /\ agent.memory_ptr_len > 0 /\ ShapeValidCid(ptr)
                /\ agent.memory_hash = ZeroHash
         [] agent.memory_mode = 2 \/ agent.memory_mode = 4 ->
                agent.memory_ptr_len > 0 /\ agent.memory_hash # ZeroHash
         [] agent.memory_mode = 3 ->
                /\ agent.memory_ptr_len > 0 /\ agent.memory_hash # ZeroHash
                /\ starts_with(ptr, HTTPS)
         [] OTHER -> FALSE

(* C12.  Memory shape invariant: every existing record's memory fields satisfy the
   shape rules of the mode table, whether CreateAgent or SetMemory wrote them. *)
MemoryShapeInvariant ==
    \A c \in Keys : Exists(agents[c]) => MemoryShapeOk(agents[c])

(* Some call of one of the six owner-only operations by signer s on the record of c *)
OwnerOnlyCall(s, c) ==
    \/ \E u \in CardUris, h \in CardHashes : SetCard(s, c, u, h)
    \/ \E m \in SetMemoryArgs : SetMemory(s, c, m[1], m[2], m[3])
    \/ LockMemory(s, c)
    \/ \E b \in BOOLEAN : SetActive(s, c, b)
    \/ \E n \in Keys \cup {NullKey} : TransferOwner(s, c, n)
    \/ CloseAgent(s, c)

OwnerOnlyOps ==
    {"SetCard", "SetMemory", "LockMemory", "SetActive", "TransferOwner", "CloseAgent"}

(* C13.  Owner-only mutation: a SetCard, SetMemory, LockMemory, SetActive,
   TransferOwner or CloseAgent on an existing record by a caller other than its
   current owner fails with Unauthorized and leaves the record unchanged, the
   creator and a previous owner included; so one that succeeds was made by the
   current owner. *)
OwnerOnly ==
    [][last'.op \in OwnerOnlyOps =>
          \A c \in Creators :
              Exists(agents[c]) =>
                  /\ \A s \in Keys \ {agents[c].owner} :
                        OwnerOnlyCall(s, c) =>
                            /\ last'.err = "Unauthorized"
                            /\ agents' = agents
                  /\ last'.err = "Ok" => OwnerOnlyCall(agents[c].owner, c)]_vars

(* The creator, who is also the previous owner, has been turned away after a
   transfer *)
OwnerOnlyWitness ==
    /\ Exists(agents[1]) /\ agents[1].owner = 2 /\ agents[1].creator = 1
    /\ last.op \in OwnerOnlyOps /\ last.err = "Unauthorized"

(* C14.  CreateAgent on a free address succeeds only when the signer is the
   creator and fails with Unauthorized otherwise; the new record has owner equal
   to creator, ACTIVE set, LOCKED clear, and HAS_STAKING set exactly when
   hasStaking is absent or true. *)
CreatorSigns ==
    [][last'.op = "CreateAgent" =>
          \A c \in Creators :
              ~Exists(agents[c]) =>
                  \A s \in Keys, u \in CardUris, h \in CardHashes,
                     hs \in HasStakingArgs, m \in CreateMemoryArgs :
                      CreateAgent(s, c, u, h, hs, m[1], m[2], m[3]) =>
                          /\ s # c => last'.err = "Unauthorized" /\ agents' = agents
                          /\ last'.err = "Ok" =>
                                /\ s = c
                                /\ agents'[c].creator = c
                                /\ agents'[c].owner = c
                                /\ HasFlag(agents'[c].flags, FLAG_ACTIVE)
                                /\ ~HasFlag(agents'[c].flags, FLAG_LOCKED)
                                /\ HasFlag(agents'[c].flags, FLAG_HAS_STAKING)
                                      <=> (~hs.some \/ hs.val)]_vars

(* A record has just been created with staking switched off *)
CreatorSignsWitness ==
    /\ last.op = "CreateAgent" /\ last.err = "Ok"
    /\ agents[1].owner = 1 /\ agents[1].creator = 1
    /\ ~HasFlag(agents[1].flags, FLAG_HAS_STAKING)

(* C15.  The creator of a record never changes after creation.  The owner of a
   record changes only by a successful TransferOwner(newOwner), which needs a
   non-null newOwner and changes no other field; TransferOwner with the null key
   fails with InvalidOwner and changes nothing. *)
OwnershipTransfer ==
    [][\A c \in Creators :
          /\ Exists(agents'[c]) => agents'[c].creator = c
          /\ (Exists(agents[c]) /\ Exists(agents'[c])) =>
                /\ agents'[c].creator = agents[c].creator
                /\ agents'[c].owner # agents[c].owner =>
                      /\ last'.op = "TransferOwner" /\ last'.err = "Ok"
                      /\ agents'[c].owner # NullKey
                      /\ agents'[c] = [agents[c] EXCEPT !.owner = agents'[c].owner]
          /\ (last'.op = "TransferOwner" /\ Exists(agents[c])) =>
                /\ TransferOwner(agents[c].owner, c, NullKey) =>
                      last'.err = "InvalidOwner" /\ agents' = agents
                /\ \A n \in Keys :
                      TransferOwner(agents[c].owner, c, n) =>
                          /\ last'.err = "Ok"
                          /\ agents'[c] = [agents[c] EXCEPT !.owner = n]]_vars

(* Ownership has just moved away from the creator *)
OwnershipTransferWitness ==
    /\ last.op = "TransferOwner" /\ last.err = "Ok"
    /\ agents[1].owner = 2 /\ agents[1].creator = 1

(* C16.  Record uniqueness: a CreateAgent for a creator whose record exists, and
   a CreateStakingPool for an agent whose pool exists, fail and leave the
   existing record, its counters and owner included, unchanged.  (Records are
   keyed by creator and pools by agent, so there is at most one of each.) *)
RecordUniqueness ==
    [][\A a \in Creators :
          /\ (last'.op = "CreateAgent" /\ Exists(agents[a])) =>
                last'.err # "Ok" /\ agents' = agents /\ pools' = pools
          /\ (last'.op = "CreateStakingPool" /\ Exists(pools[a])) =>
                last'.err # "Ok" /\ pools' = pools /\ agents' = agents]_vars

(* A second CreateStakingPool has been turned away from a pool that holds stake *)
RecordUniquenessWitness ==
    /\ last.op = "CreateStakingPool" /\ last.err = "AccountAlreadyInUse"
    /\ pools[1].total_staked > 0 /\ pools[1].staker_count > 0

(* C17.  CreateStakingPool on an existing agent without a pool succeeds exactly
   when the agent has HAS_STAKING (else StakingNotEnabled), the caller is the
   agent's current owner (else Unauthorized) and minStakeAmount > 0 (else
   InvalidMinStakeAmount), the first failing condition naming the error; the new
   pool has totalStaked 0, stakerCount 0, the agent's current owner as owner and
   the agent as agentRef; on failure no pool is created. *)
PoolCreation ==
    [][last'.op = "CreateStakingPool" =>
          \A a \in Creators :
              (Exists(agents[a]) /\ ~Exists(pools[a])) =>
                  \A s \in Keys, m \in MinStakes :
                      CreateStakingPool(s, a, m) =>
                          IF /\ HasFlag(agents[a].flags, FLAG_HAS_STAKING)
                             /\ s = agents[a].owner
                             /\ m > 0
                          THEN /\ last'.err = "Ok"
                               /\ Exists(pools'[a])
                               /\ pools'[a].total_staked = 0
                               /\ pools'[a].staker_count = 0
                               /\ pools'[a].owner = agents[a].owner
                               /\ pools'[a].agent_pda = a
                               /\ pools'[a].min_stake_amount = m
                          ELSE /\ ~Exists(pools'[a])
                               /\ last'.err =
                                    IF ~HasFlag(agents[a].flags, FLAG_HAS_STAKING)
                                    THEN "StakingNotEnabled"
                                    ELSE IF s # agents[a].owner THEN "Unauthorized"
                                    ELSE "InvalidMinStakeAmount"]_vars

(* A pool has just been created by an owner who is not the creator *)
PoolCreationWitness ==
    /\ last.op = "CreateStakingPool" /\ last.err = "Ok"
    /\ agents[1].owner = 2 /\ pools[1].owner = 2 /\ pools[1].agent_pda = 1

(* C18.  Every existing pool has minStakeAmount > 0.  CreateStakingPool(0) by the
   agent's owner and UpdateMinStake(0) by anyone fail with InvalidMinStakeAmount;
   UpdateMinStake with a positive amount succeeds for the caller equal to
   pool.owner and fails with Unauthorized for any other; a failed call leaves the
   pool unchanged. *)
MinStakePositive ==
    [][\A a \in Creators :
          /\ Exists(pools'[a]) => pools'[a].min_stake_amount > 0
          /\ (last'.op = "CreateStakingPool" /\ Exists(agents[a]) /\ ~Exists(pools[a])
                /\ HasFlag(agents[a].flags, FLAG_HAS_STAKING)
                /\ CreateStakingPool(agents[a].owner, a, 0)) =>
                last'.err = "InvalidMinStakeAmount" /\ pools' = pools
          /\ (last'.op = "UpdateMinStake" /\ Exists(pools[a])) =>
                \A s \in Keys, m \in MinStakes :
                    UpdateMinStake(s, a, m) =>
                        IF m = 0
                        THEN last'.err = "InvalidMinStakeAmount" /\ pools' = pools
                        ELSE IF s # pools[a].owner
                        THEN last'.err = "Unauthorized" /\ pools' = pools
                        ELSE /\ last'.err = "Ok"
                             /\ pools'[a] = [pools[a] EXCEPT !.min_stake_amount = m]]_vars

(* The agent's new owner, who is not the pool's owner, has been refused *)
MinStakePositiveWitness ==
    /\ last.op = "UpdateMinStake" /\ last.err = "Unauthorized"
    /\ Exists(pools[1]) /\ pools[1].owner = 1 /\ agents[1].owner = 2
    /\ pools[1].min_stake_amount > 0

(* What a call on the position of ClockStaker leaves alone when it fails *)
StakingUnchanged == UNCHANGED <<pools, stakes, tokens, vaults, lamports>>

(* C19, as amended.  Stake(amount) on an existing position succeeds only with
   amount > 0 (Stake(0) fails with InvalidStakeAmount) and for the caller equal to
   position.staker; any other caller is refused with ConstraintSeeds, because the
   position's address is derived from the caller's key.  A successful call moves
   exactly amount tokens from the staker to the vault, adds amount to
   position.stakedAmount and pool.totalStaked, sets lastUpdatedAt to now, leaves
   stakedAt alone, and adds one to pool.stakerCount, saturating at the u32
   maximum, exactly when stakedAmount was 0 before the call. *)
StakeEffect ==
    [][last'.op = "Stake" =>
          \A a \in Creators :
              (Exists(pools[a]) /\ Exists(stakes[<<ClockStaker, a>>])) =>
                  \A s \in Keys, n \in Amounts :
                      Stake(s, ClockStaker, a, n) =>
                          LET pos == stakes[<<ClockStaker, a>>]
                              pos1 == stakes'[<<ClockStaker, a>>]
                          IN /\ s # pos.staker =>
                                   last'.err = "ConstraintSeeds" /\ StakingUnchanged
                             /\ (s = pos.staker /\ n = 0) =>
                                   last'.err = "InvalidStakeAmount" /\ StakingUnchanged
                             /\ last'.err = "Ok" =>
                                   /\ n > 0 /\ s = pos.staker
                                   /\ tokens'[s] = tokens[s] - n
                                   /\ vaults'[a] = vaults[a] + n
                                   /\ pos1.staked_amount = pos.staked_amount + n
                                   /\ pools'[a].total_staked = pools[a].total_staked + n
                                   /\ pos1.last_updated_at = now
                                   /\ pos1.staked_at = pos.staked_at
                                   /\ pools'[a].staker_count =
                                         IF pos.staked_amount = 0
                                         THEN Min(pools[a].staker_count + 1, U32_MAX)
                                         ELSE pools[a].staker_count]_vars

(* A position emptied by a withdrawal has been staked again, later than it was
   opened *)
StakeEffectWitness ==
    /\ last.op = "Stake" /\ last.err = "Ok"
    /\ pools[1].staker_count = 2
    /\ stakes[<<ClockStaker, 1>>].last_updated_at > stakes[<<ClockStaker, 1>>].staked_at

(* C19, as stated.  A successful Stake(amount) requires amount > 0 (Stake(0) fails
   InvalidStakeAmount) and a caller equal to position.staker (else Unauthorized);
   it moves exactly amount tokens from the staker to the vault, adds amount to
   position.stakedAmount and pool.totalStaked, sets lastUpdatedAt to now, and
   increments pool.stakerCount by one exactly when stakedAmount was 0 before. *)
StakeEffectAsStated ==
    [][last'.op = "Stake" =>
          \A a \in Creators :
              (Exists(pools[a]) /\ Exists(stakes[<<ClockStaker, a>>])) =>
                  \A s \in Keys, n \in Amounts :
                      Stake(s, ClockStaker, a, n) =>
                          LET pos == stakes[<<ClockStaker, a>>]
                              pos1 == stakes'[<<ClockStaker, a>>]
                          IN /\ s # pos.staker =>
                                   last'.err = "Unauthorized" /\ StakingUnchanged
                             /\ (s = pos.staker /\ n = 0) =>
                                   last'.err = "InvalidStakeAmount" /\ StakingUnchanged
                             /\ last'.err = "Ok" =>
                                   /\ n > 0 /\ s = pos.staker
                                   /\ tokens'[s] = tokens[s] - n
                                   /\ vaults'[a] = vaults[a] + n
                                   /\ pos1.staked_amount = pos.staked_amount + n
                                   /\ pools'[a].total_staked = pools[a].total_staked + n
                                   /\ pos1.last_updated_at = now
                                   /\ pools'[a].staker_count =
                                         IF pos.staked_amount = 0
                                         THEN pools[a].staker_count + 1
                                         ELSE pools[a].staker_count]_vars

(* C20.  A successful WithdrawStake returns the position's entire stakedAmount
   from the vault to the staker, sets stakedAmount to 0 and lastUpdatedAt to now,
   decreases pool.totalStaked by the withdrawn amount, and leaves stakedAt,
   pool.stakerCount and the existence of the position unchanged. *)
WithdrawEffect ==
    [][(last'.op = "WithdrawStake" /\ last'.err = "Ok") =>
          \A a \in Creators, s \in Keys :
              WithdrawStake(s, ClockStaker, a) =>
                  LET pos == stakes[<<ClockStaker, a>>]
                      pos1 == stakes'[<<ClockStaker, a>>]
                  IN /\ s = pos.staker /\ pos.staked_amount > 0
                     /\ tokens'[s] = tokens[s] + pos.staked_amount
                     /\ vaults'[a] = vaults[a] - pos.staked_amount
                     /\ Exists(pos1)
                     /\ pos1 = [pos EXCEPT !.staked_amount = 0, !.last_updated_at = now]
                     /\ pos1.staked_at = pos.staked_at
                     /\ pools'[a].total_staked = pools[a].total_staked - pos.staked_amount
                     /\ pools'[a].total_staked >= 0
                     /\ pools'[a].staker_count = pools[a].staker_count]_vars

(* A position has been emptied some time after it was opened, and is still there *)
WithdrawEffectWitness ==
    /\ last.op = "WithdrawStake" /\ last.err = "Ok"
    /\ Exists(stakes[<<ClockStaker, 1>>])
    /\ stakes[<<ClockStaker, 1>>].staked_amount = 0
    /\ stakes[<<ClockStaker, 1>>].last_updated_at > stakes[<<ClockStaker, 1>>].staked_at
    /\ pools[1].staker_count = 1 /\ pools[1].total_staked = 0

(* C21.  WithdrawStake on a position whose stakedAmount is 0 fails, with NoStake
   when the position's staker calls it, charges no fee, moves no tokens and
   changes no record; so a WithdrawStake that follows a successful one at once
   fails. *)
NoStakeNoFee ==
    [][last'.op = "WithdrawStake" =>
          \A a \in Creators :
              /\ (/\ Exists(program_state) /\ Exists(pools[a])
                  /\ Exists(stakes[<<ClockStaker, a>>])
                  /\ stakes[<<ClockStaker, a>>].staked_amount = 0) =>
                    \A s \in Keys :
                        WithdrawStake(s, ClockStaker, a) =>
                            /\ last'.err # "Ok"
                            /\ s = stakes[<<ClockStaker, a>>].staker => last'.err = "NoStake"
                            /\ StakingUnchanged
              /\ (/\ last.op = "WithdrawStake" /\ last.err = "Ok"
                  /\ \E s \in Keys : WithdrawStake(s, ClockStaker, a)) =>
                    last'.err # "Ok" /\ StakingUnchanged]_vars

(* A withdrawal has been refused on a position that was emptied before *)
NoStakeNoFeeWitness ==
    /\ last.op = "WithdrawStake" /\ last.err = "NoStake"
    /\ stakes[<<ClockStaker, 1>>].staked_amount = 0
    /\ pools[1].staker_count > 0
    /\ lamports[ClockStaker] < InitLamports[ClockStaker]

(* C22.  stakedAt is the time of the position's first-ever stake and is never
   reset afterwards by Stake or WithdrawStake.  (With one position in the pool,
   the first-ever stake is the successful Stake made while stakerCount is 0.) *)
StakedAtFirstStake ==
    [][\A a \in Creators :
          Exists(stakes[<<ClockStaker, a>>]) =>
              /\ (last'.op = "Stake" /\ last'.err = "Ok" /\ pools[a].staker_count = 0) =>
                    stakes'[<<ClockStaker, a>>].staked_at = now
              /\ ~(last'.op = "Stake" /\ last'.err = "Ok" /\ pools[a].staker_count = 0) =>
                    stakes'[<<ClockStaker, a>>].staked_at =
                        stakes[<<ClockStaker, a>>].staked_at]_vars

(* C23.  pool.stakerCount equals the number of the pool's positions that have
   ever held a nonzero stake: it is at least the number of positions that hold
   stake now and at most the number of positions; it is never decremented, and
   it moves only by one, on a successful Stake into a position with
   stakedAmount 0. *)
StakerCountEverStaked ==
    [][\A a \in Creators :
          Exists(pools'[a]) =>
              LET positions == {s \in Keys : Exists(stakes'[<<s, a>>])}
                  holding == {s \in positions : stakes'[<<s, a>>].staked_amount > 0}
              IN /\ Cardinality(holding) <= pools'[a].staker_count
                 /\ pools'[a].staker_count <= Cardinality(positions)
                 /\ Exists(pools[a]) =>
                       /\ pools'[a].staker_count >= pools[a].staker_count
                       /\ pools'[a].staker_count # pools[a].staker_count =>
                             /\ last'.op = "Stake" /\ last'.err = "Ok"
                             /\ pools'[a].staker_count = pools[a].staker_count + 1
                             /\ \E s \in positions :
                                   /\ stakes[<<s, a>>].staked_amount = 0
                                   /\ stakes'[<<s, a>>].staked_amount > 0]_vars

(* C30.  Stake and WithdrawStake for a (staker, agent) pair fail, changing
   nothing, unless InitStake has succeeded for that pair.  InitStake fails when
   the agent's pool does not exist; when it succeeds it creates a position of the
   caller with stakedAmount 0 and leaves pool.totalStaked and pool.stakerCount
   unchanged; a second InitStake for the same pair fails and leaves the existing
   position unchanged. *)
InitStakeFirst ==
    [][last'.op \in {"InitStake", "Stake", "WithdrawStake"} =>
          \A a \in Creators, s \in Keys :
              /\ ~Exists(stakes[<<s, a>>]) =>
                    /\ (\E n \in Amounts : Stake(s, s, a, n)) =>
                          last'.err # "Ok" /\ StakingUnchanged
                    /\ WithdrawStake(s, s, a) => last'.err # "Ok" /\ StakingUnchanged
              /\ InitStake(s, a) =>
                    /\ pools' = pools
                    /\ IF Exists(pools[a]) /\ ~Exists(stakes[<<s, a>>])
                       THEN /\ last'.err = "Ok"
                            /\ Exists(stakes'[<<s, a>>])
                            /\ stakes'[<<s, a>>].staker = s
                            /\ stakes'[<<s, a>>].agent_pda = a
                            /\ stakes'[<<s, a>>].staked_amount = 0
                       ELSE last'.err # "Ok" /\ stakes' = stakes]_vars

(* A second InitStake has been refused on a position that holds stake *)
InitStakeFirstWitness ==
    /\ last.op = "InitStake" /\ last.err = "AccountAlreadyInUse"
    /\ \E s \in Keys : Exists(stakes[<<s, 1>>]) /\ stakes[<<s, 1>>].staked_amount > 0
    /\ pools[1].staker_count > 0

(* C24.  A WithdrawStake at time now on a position that holds stake computes
   fee = decayFee(max(now - stakedAt, 0), FeeConfig).  When fee > 0 and the
   caller's native balance is below fee + rentExemptMinimum it fails with
   InsufficientSolForFee and nothing changes; otherwise it moves exactly fee
   native units from the caller to FeeConfig.treasury, and none when fee is 0. *)
WithdrawalFee ==
    [][last'.op = "WithdrawStake" =>
          \A a \in Creators :
              (/\ Exists(program_state) /\ Exists(pools[a])
               /\ Exists(stakes[<<ClockStaker, a>>])
               /\ stakes[<<ClockStaker, a>>].staked_amount > 0
               /\ WithdrawStakeTo(ClockStaker, a, ClockStaker)) =>
                  LET elapsed == Max(now - stakes[<<ClockStaker, a>>].staked_at, 0)
                      fee == decayFeeReference(elapsed, program_state)
                      treasury == program_state.treasury
                  IN IF fee > 0 /\ lamports[ClockStaker] < fee + RENT_EXEMPT_MIN
                     THEN last'.err = "InsufficientSolForFee" /\ StakingUnchanged
                     ELSE /\ last'.err = "Ok"
                          /\ lamports' = [lamports EXCEPT ![ClockStaker] = @ - fee,
                                                          ![treasury] = @ + fee]]_vars

(* A decayed fee has reached the treasury, and a later withdrawal has been refused
   for lack of native balance *)
WithdrawalFeeWitness ==
    /\ last.op = "WithdrawStake" /\ last.err = "InsufficientSolForFee"
    /\ Exists(program_state) /\ program_state.treasury = TreasuryKey
    /\ lamports[TreasuryKey] > 0 /\ lamports[TreasuryKey] < DEFAULT_IMMEDIATE_FEE
    /\ lamports[ClockStaker] + lamports[TreasuryKey] = InitLamports[ClockStaker]

(* C25.  All-or-nothing: every operation that fails leaves all records and all
   token and native balances exactly as they were, also when the handler had
   already written a field or made a transfer before it failed. *)
AllOrNothing ==
    [][last'.err # "Ok" =>
          UNCHANGED <<agents, program_state, pools, stakes, tokens, vaults, lamports>>]_vars

(* A withdrawal whose fee was payable has failed in the token transfer that
   follows the fee, and the staker still has every lamport *)
AllOrNothingWitness ==
    /\ last.op = "WithdrawStake" /\ last.err = "InsufficientFunds"
    /\ Exists(program_state) /\ program_state.treasury = TreasuryKey
    /\ stakes[<<ClockStaker, 1>>].staked_amount > 0
    /\ lamports = InitLamports

(* C27.  FeeConfig is a write-once singleton: once it exists an InitProgramState
   fails and changes nothing, and no operation changes feeImmediate, feeRegular,
   feeMax, decayDurationSeconds or treasury. *)
ConfigWriteOnce ==
    [][Exists(program_state) =>
          /\ program_state' = program_state
          /\ \A t \in Treasuries : InitProgramState(t) => last'.err # "Ok"]_vars

(* A second initialisation has been refused after fees were paid to the treasury *)
ConfigWriteOnceWitness ==
    /\ last.op = "InitProgramState" /\ last.err = "AccountAlreadyInUse"
    /\ program_state.treasury = TreasuryKey /\ lamports[TreasuryKey] > 0

(* A 96-byte buffer and its length hold exactly the given bytes, zero-padded *)
Stored(buffer, len, bytes) ==
    /\ len = Len(bytes)
    /\ \A i \in 1..96 : buffer[i] = IF i <= Len(bytes) THEN bytes[i] ELSE 0
StoredCard(agent, bytes) == Stored(agent.card_uri, agent.card_uri_len, bytes)
StoredMemory(agent, bytes) == Stored(agent.memory_ptr, agent.memory_ptr_len, bytes)

(* C28, as amended.  After a successful CreateAgent, SetCard or SetMemory the
   stored buffer's first len bytes equal the supplied bytes, the stored length
   equals the input length and every byte from len to 95 is zero, also when a
   shorter value overwrites a longer one; except that CreateAgent stores the
   memory pointer only when a memory mode is supplied: without a mode a supplied
   pointer is ignored and the memory buffer is empty. *)
RoundTrip ==
    [][last'.err = "Ok" =>
          \A c \in Creators :
              /\ (last'.op = "CreateAgent" /\ ~Exists(agents[c])) =>
                    \A u \in CardUris, h \in CardHashes,
                       hs \in HasStakingArgs, m \in CreateMemoryArgs :
                        CreateAgent(c, c, u, h, hs, m[1], m[2], m[3]) =>
                            /\ StoredCard(agents'[c], u)
                            /\ StoredMemory(agents'[c],
                                            IF m[1].some THEN m[2].val ELSE <<>>)
              /\ (last'.op = "SetCard" /\ Exists(agents[c])) =>
                    \A u \in CardUris, h \in CardHashes :
                        SetCard(agents[c].owner, c, u, h) => StoredCard(agents'[c], u)
              /\ (last'.op = "SetMemory" /\ Exists(agents[c])) =>
                    \A m \in SetMemoryArgs :
                        SetMemory(agents[c].owner, c, m[1], m[2], m[3]) =>
                            StoredMemory(agents'[c], m[2])]_vars

(* A short card is stored with a zero tail next to a memory pointer of another
   length *)
RoundTripWitness ==
    /\ last.op = "SetCard" /\ last.err = "Ok"
    /\ StoredCard(agents[1], CardIpfs)
    /\ StoredMemory(agents[1], UrlPtr)

(* C28, as stated.  After a successful CreateAgent, SetCard or SetMemory the
   stored buffer's first len bytes equal the supplied bytes, the stored length
   equals the input length and every byte from len to 95 is zero. *)
RoundTripEveryArgument ==
    [][last'.err = "Ok" =>
          \A c \in Creators :
              /\ (last'.op = "CreateAgent" /\ ~Exists(agents[c])) =>
                    \A u \in CardUris, h \in CardHashes,
                       hs \in HasStakingArgs, m \in CreateMemoryArgs :
                        CreateAgent(c, c, u, h, hs, m[1], m[2], m[3]) =>
                            /\ StoredCard(agents'[c], u)
                            /\ StoredMemory(agents'[c],
                                            IF m[2].some THEN m[2].val ELSE <<>>)
              /\ (last'.op = "SetCard" /\ Exists(agents[c])) =>
                    \A u \in CardUris, h \in CardHashes :
                        SetCard(agents[c].owner, c, u, h) => StoredCard(agents'[c], u)
              /\ (last'.op = "SetMemory" /\ Exists(agents[c])) =>
                    \A m \in SetMemoryArgs :
                        SetMemory(agents[c].owner, c, m[1], m[2], m[3]) =>
                            StoredMemory(agents'[c], m[2])]_vars

(* What CreateAgent's memory arguments lead to, condition by condition *)
CreateMemoryOutcome(m, utf8_checked, not_https) ==
    IF ~m[2].some THEN "InvalidMemoryFields"
    ELSE IF ~(Len(m[2].val) >= 1 /\ Len(m[2].val) <= 96) THEN "InvalidLength"
    ELSE IF ~(m[1].val \in 0..3) THEN "InvalidMemoryFields"
    ELSE IF m[1].val = 3 /\ utf8_checked /\ ~from_utf8_ok(m[2].val) THEN "InvalidMemoryFields"
    ELSE IF m[1].val = 3 /\ ~starts_with(m[2].val, HTTPS) THEN not_https
    ELSE "Ok"

(* C29, as amended.  When a memory mode is supplied, CreateAgent with a valid card
   and caller on a free address succeeds exactly when a pointer is supplied (else
   InvalidMemoryFields), its length is in 1..96 (else InvalidLength), the mode is
   None, Cid, Ipns or Url (else InvalidMemoryFields) and, for Url, the pointer is
   valid UTF-8 (else InvalidMemoryFields) and starts with https:// (else
   InsecureUrl), the first failing condition naming the error; after a failure
   no agent record exists. *)
CreateMemoryValidation ==
    [][last'.op = "CreateAgent" =>
          \A c \in Creators :
              ~Exists(agents[c]) =>
                  \A m \in {x \in CreateMemoryTableArgs : x[1].some} :
                      CreateAgent(c, c, CardIpfs, Hash(1), NoBool, m[1], m[2], m[3]) =>
                          /\ last'.err = CreateMemoryOutcome(m, TRUE, "InsecureUrl")
                          /\ Exists(agents'[c]) <=> last'.err = "Ok"]_vars

(* A creation in Url mode has been refused for a pointer that is not https *)
CreateMemoryValidationWitness ==
    /\ last.op = "CreateAgent" /\ last.err = "InsecureUrl"
    /\ ~Exists(agents[1])

(* C29, as stated: the same without the UTF-8 condition, a Url pointer that does
   not start with https:// failing with InsecureUrl; success is required only of
   pointers that are text. *)
CreateMemoryValidationAsStated ==
    [][last'.op = "CreateAgent" =>
          \A c \in Creators :
              ~Exists(agents[c]) =>
                  \A m \in {x \in CreateMemoryTableArgs : x[1].some} :
                      CreateAgent(c, c, CardIpfs, Hash(1), NoBool, m[1], m[2], m[3]) =>
                          /\ last'.err = "Ok" => CreateMemoryOutcome(m, FALSE, "InsecureUrl") = "Ok"
                          /\ CreateMemoryOutcome(m, FALSE, "InsecureUrl") # "Ok" =>
                                /\ last'.err = CreateMemoryOutcome(m, FALSE, "InsecureUrl")
                                /\ ~Exists(agents'[c])]_vars

(* The records a staking operation of staker s for agent a would write in the
   current state, given the handler's result; none when it would fail *)
WrittenBy(r, s, a) ==
    IF r.err # "Ok" THEN {}
    ELSE (IF r.pool # pools[a] THEN {<<"pool", a, a>>} ELSE {})
         \cup (IF r.stake_acc # stakes[<<s, a>>] THEN {<<"position", s, a>>} ELSE {})
         \cup (IF r.vault_tokens # vaults[a] THEN {<<"vault", a, a>>} ELSE {})
         \cup (IF r.staker_tokens # tokens[s] THEN {<<"tokens", s, s>>} ELSE {})
         \cup {<<"lamports", k, k>> : k \in {x \in Accounts : r.balances[x] # lamports[x]}}
StakeWrites(s, a) ==
    IF StakeAccounts(pools[a], stakes[<<s, a>>], s, s) # "Ok" THEN {}
    ELSE WrittenBy(stake(pools[a], stakes[<<s, a>>], s, 1, tokens[s], vaults[a], lamports, now), s, a)
WithdrawStakeWrites(s, a) ==
    IF WithdrawStakeAccounts(program_state, pools[a], stakes[<<s, a>>], s, s) # "Ok" THEN {}
    ELSE WrittenBy(withdraw_stake(pools[a], program_state, stakes[<<s, a>>], s, tokens[s], vaults[a], lamports, now), s, a)
StakingOps == {"Stake", "WithdrawStake"} \X Keys \X Keys
Writes(o) == IF o[1] = "Stake" THEN StakeWrites(o[2], o[3]) ELSE WithdrawStakeWrites(o[2], o[3])

(* C26, as amended.  A successful Stake or WithdrawStake of staker s for agent a
   writes the pool and the vault of a, the position of s in a and the token
   balance of s, and nothing else but the native balances of s and of the
   treasury: no record of another agent, no position, token or native balance of
   another staker, no agent record, not the fee configuration.  So operations for
   different agents share no program record, while operations of different
   stakers for the same agent both write its pool and vault. *)
WriteFootprint ==
    [][(last'.op \in {"Stake", "WithdrawStake"} /\ last'.err = "Ok") =>
          \A a \in Keys, s \in Keys :
              (Stake(s, s, a, 1) \/ WithdrawStake(s, s, a)) =>
                  /\ pools'[a] # pools[a] /\ vaults'[a] # vaults[a]
                  /\ stakes'[<<s, a>>] # stakes[<<s, a>>] /\ tokens'[s] # tokens[s]
                  /\ \A x \in Keys \ {a} : pools'[x] = pools[x] /\ vaults'[x] = vaults[x]
                  /\ \A p \in (Keys \X Keys) \ {<<s, a>>} : stakes'[p] = stakes[p]
                  /\ \A k \in Keys \ {s} : tokens'[k] = tokens[k]
                  /\ \A k \in Accounts \ {s, TreasuryKey} : lamports'[k] = lamports[k]
                  /\ agents' = agents /\ program_state' = program_state]_vars

(* Both stakers hold stake in the pool of agent 1, written by each of them, while
   the pool of agent 2 holds stake as well *)
WriteFootprintWitness ==
    /\ last.op = "Stake" /\ last.err = "Ok"
    /\ Exists(stakes[<<1, 1>>]) /\ stakes[<<1, 1>>].staked_amount > 0
    /\ Exists(stakes[<<2, 1>>]) /\ stakes[<<2, 1>>].staked_amount > 0
    /\ Exists(pools[2]) /\ pools[2].total_staked > 0

(* C26, as stated.  Two operations issued for different agents, or by different
   stakers, never write the same record. *)
NoSharedRecord ==
    \A o1 \in StakingOps, o2 \in StakingOps :
        (o1[3] # o2[3] \/ o1[2] # o2[2]) => Writes(o1) \cap Writes(o2) = {}

(* C31, as stated.  The last instruction executed emitted an event if and only if
   it succeeded: every successful instruction appends an event to the log and a
   failed one appends none. *)
EveryOperationNotifies ==
    last.op # "Init" => (last.err = "Ok" <=> last.event # "none")

(* C32.  A successful SetActive(b) leaves the ACTIVE bit equal to b, whatever it
   was before (so a cleared bit can be set again), and changes no other bit of
   the flags and no other field of the record; applying set_active(b) to the
   result once more gives the same record; a failed SetActive changes nothing. *)
SetActiveOnly ==
    [][last'.op = "SetActive" =>
          \A c \in Creators, s \in Keys, b \in BOOLEAN :
              SetActive(s, c, b) =>
                  IF last'.err = "Ok"
                  THEN /\ HasFlag(agents'[c].flags, FLAG_ACTIVE) = b
                       /\ HasFlag(agents'[c].flags, FLAG_LOCKED) = HasFlag(agents[c].flags, FLAG_LOCKED)
                       /\ HasFlag(agents'[c].flags, FLAG_HAS_STAKING) = HasFlag(agents[c].flags, FLAG_HAS_STAKING)
                       /\ agents'[c] = [agents[c] EXCEPT !.flags = agents'[c].flags]
                       /\ agents'[c].flags \in {agents[c].flags, agents[c].flags + FLAG_ACTIVE, agents[c].flags - FLAG_ACTIVE}
                       /\ set_active(agents'[c], b).acc = agents'[c]
                  ELSE agents' = agents]_vars

(* SetActive(false) has succeeded on a locked record with a memory pointer whose
   owner is no longer its creator *)
SetActiveOnlyWitness ==
    /\ last.op = "SetActive" /\ last.err = "Ok"
    /\ Exists(agents[1])
    /\ ~HasFlag(agents[1].flags, FLAG_ACTIVE)
    /\ HasFlag(agents[1].flags, FLAG_LOCKED)
    /\ agents[1].memory_mode # 0
    /\ agents[1].owner # agents[1].creator

(* A fee configuration whose decay duration is zero *)
ZeroDuration(state) == [state EXCEPT !.decay_duration_seconds = 0]
EdgeFees == {0, 1, U64_MAX}

(* C33.  calculate_unstake_fee returns InvalidFeeConfig for a configuration whose
   decay duration is zero, at every elapsed time and for every choice of the
   three fee levels; and withdraw_stake, given such a configuration for a position
   that holds stake, returns InvalidFeeConfig with the pool, the position, the
   token balances and the native balances as they were, and no event. *)
ZeroDurationGuarded ==
    /\ \A i \in EdgeFees, r \in EdgeFees, m \in EdgeFees, e \in ElapsedValues :
          calculate_unstake_fee(e, [ZeroDuration(DefaultState) EXCEPT
                                        !.fee_immediate_lamports = i,
                                        !.fee_regular_lamports = r,
                                        !.fee_max_lamports = m])
              = FeeErr("InvalidFeeConfig")
    /\ \A a \in Creators :
          (/\ Exists(program_state) /\ Exists(pools[a])
           /\ Exists(stakes[<<ClockStaker, a>>])
           /\ stakes[<<ClockStaker, a>>].staked_amount > 0) =>
              LET r == withdraw_stake(pools[a], ZeroDuration(program_state), stakes[<<ClockStaker, a>>], ClockStaker, tokens[ClockStaker], vaults[a], lamports, now)
              IN /\ r.err = "InvalidFeeConfig" /\ r.event = "none"
                 /\ r.pool = pools[a] /\ r.stake_acc = stakes[<<ClockStaker, a>>]
                 /\ r.staker_tokens = tokens[ClockStaker] /\ r.vault_tokens = vaults[a]
                 /\ r.balances = lamports

(* A position holds stake some time after it was opened, and a withdrawal under
   the configuration in force would succeed *)
ZeroDurationGuardedWitness ==
    /\ Exists(program_state) /\ Exists(pools[1]) /\ Exists(stakes[<<ClockStaker, 1>>])
    /\ stakes[<<ClockStaker, 1>>].staked_amount > 0
    /\ now > stakes[<<ClockStaker, 1>>].staked_at
    /\ withdraw_stake(pools[1], program_state, stakes[<<ClockStaker, 1>>], ClockStaker, tokens[ClockStaker], vaults[1], lamports, now).err = "Ok"

(* C34.  Whenever calculate_unstake_fee takes the interpolation branch (duration
   > 0, elapsed < duration), the product (immediate - regular) * elapsed is below
   the limit of the double-width type, so the saturating multiplication returns
   the exact product, and the fee returned is the exact value of min(immediate -
   floor(product / duration), max), which is at most the 64-bit maximum; on the
   other branch the fee is min(regular, max), again at most the 64-bit maximum. *)
FeeNoOverflow ==
    (fee_out.err = "Ok") =>
        LET cfg == fee_in.state
            diff == Monus(cfg.fee_immediate_lamports, cfg.fee_regular_lamports)
            exact == Min(Monus(cfg.fee_immediate_lamports, Floor(diff * fee_in.elapsed_secs, cfg.decay_duration_seconds)), cfg.fee_max_lamports)
        IN /\ fee_out.fee <= U64_MAX
           /\ fee_in.elapsed_secs < cfg.decay_duration_seconds =>
                 /\ diff * fee_in.elapsed_secs < U128_MAX
                 /\ saturating_mul(diff, fee_in.elapsed_secs, U128_MAX) = diff * fee_in.elapsed_secs
                 /\ exact <= U64_MAX
                 /\ fee_out.fee = exact
                 /\ fee_out = calculate_unstake_fee(fee_in.elapsed_secs, cfg)

(* The largest fee difference over the longest window: the product does not fit
   in 64 bits *)
FeeNoOverflowWitness ==
    /\ fee_out.err = "Ok"
    /\ fee_in.state.fee_immediate_lamports = U64_MAX
    /\ fee_in.state.fee_regular_lamports = 0
    /\ fee_in.state.fee_max_lamports = U64_MAX
    /\ fee_in.state.decay_duration_seconds = U32_MAX
    /\ fee_in.elapsed_secs < U32_MAX
    /\ U64_MAX * fee_in.elapsed_secs > U64_MAX

(* C35.  HAS_STAKING never changes on an existing record; a record that has it is
   never closed (CloseAgent on it fails with AgentActive or StakingEnabled when
   called by its owner); and wherever a pool exists, the agent record it refers to
   exists and has HAS_STAKING. *)
StakingFlagFixed ==
    [][\A c \in Creators :
          /\ (Exists(agents[c]) /\ Exists(agents'[c])) =>
                 HasFlag(agents'[c].flags, FLAG_HAS_STAKING) = HasFlag(agents[c].flags, FLAG_HAS_STAKING)
          /\ (Exists(agents[c]) /\ HasFlag(agents[c].flags, FLAG_HAS_STAKING)) =>
                 /\ Exists(agents'[c])
                 /\ last'.op = "CloseAgent" =>
                        last'.err \in {"AgentActive", "StakingEnabled", "Unauthorized"}
          /\ Exists(pools'[c]) =>
                 /\ Exists(agents'[c])
                 /\ HasFlag(agents'[c].flags, FLAG_HAS_STAKING)
                 /\ pools'[c].agent_pda = c]_vars

(* The owner's CloseAgent has been refused on a deactivated, locked and handed-over
   agent whose pool holds stake *)
StakingFlagFixedWitness ==
    /\ last.op = "CloseAgent" /\ last.err = "StakingEnabled"
    /\ Exists(agents[1]) /\ Exists(pools[1])
    /\ ~HasFlag(agents[1].flags, FLAG_ACTIVE)
    /\ HasFlag(agents[1].flags, FLAG_LOCKED)
    /\ agents[1].owner # agents[1].creator
    /\ pools[1].total_staked > 0

(* C36.  The owner of a pool is the caller of the CreateStakingPool that created
   it and never changes afterwards; TransferOwner leaves every pool as it is; and
   an UpdateMinStake with a positive amount on an existing pool succeeds when the
   caller is the pool's owner and fails with Unauthorized, changing nothing, for
   any other caller, the agent's present owner included. *)
PoolOwnerFixed ==
    [][\A a \in Creators :
          /\ (Exists(pools[a]) /\ Exists(pools'[a])) => pools'[a].owner = pools[a].owner
          /\ last'.op = "TransferOwner" => pools' = pools
          /\ (last'.op = "CreateStakingPool" /\ last'.err = "Ok") =>
                 \A s \in Keys, m \in MinStakes :
                     CreateStakingPool(s, a, m) => pools'[a].owner = s
          /\ (last'.op = "UpdateMinStake" /\ Exists(pools[a])) =>
                 \A s \in Keys, m \in MinStakes \ {0} :
                     UpdateMinStake(s, a, m) =>
                         IF s = pools[a].owner
                         THEN last'.err = "Ok" /\ pools'[a].min_stake_amount = m
                         ELSE last'.err = "Unauthorized" /\ pools' = pools]_vars

(* After the agent changed hands, the identity that created the pool has changed
   its minimum *)
PoolOwnerFixedWitness ==
    /\ last.op = "UpdateMinStake" /\ last.err = "Ok"
    /\ Exists(agents[1]) /\ Exists(pools[1])
    /\ agents[1].owner # pools[1].owner

(* C37.  Vault solvency: in every reachable state the vault of an existing pool
   holds at least the pool's total_staked and at least the staked_amount of every
   position of the pool, and no WithdrawStake has failed in the token transfer
   out of the vault. *)
VaultSolvent ==
    /\ \A a \in Creators :
          Exists(pools[a]) =>
              /\ vaults[a] >= pools[a].total_staked
              /\ \A s \in Keys : vaults[a] >= StakedAmount(s, a)
              /\ \A s \in Keys :
                    (Exists(stakes[<<s, a>>]) /\ StakedAmount(s, a) > 0) =>
                        token_transfer(vaults[a], tokens[s], StakedAmount(s, a)).ok
    /\ last.op = "WithdrawStake" => last.err # "InsufficientFunds"

(* Both stakers deposited, one has withdrawn, and the vault still covers the
   other's stake *)
VaultSolventWitness ==
    /\ last.op = "WithdrawStake" /\ last.err = "Ok"
    /\ Exists(stakes[<<1, 1>>]) /\ Exists(stakes[<<2, 1>>])
    /\ StakedAmount(1, 1) = 0 /\ StakedAmount(2, 1) > 1
    /\ pools[1].staker_count = 2
    /\ vaults[1] = StakedAmount(2, 1)

(* What WithdrawStake of staker s for agent a returns in the current state *)
WithdrawOutcome(s, a) ==
    LET chk == WithdrawStakeAccounts(program_state, pools[a], stakes[<<s, a>>], s, s)
    IN IF chk # "Ok" THEN chk
       ELSE withdraw_stake(pools[a], program_state, stakes[<<s, a>>], s, tokens[s], vaults[a], lamports, now).err

(* The conditions under which a withdrawal is to succeed: the fee configuration
   and the position exist, the position holds stake, and the staker's native
   balance covers the fee and the rent-exempt minimum when a fee is due *)
WithdrawEnabled(s, a) ==
    /\ Exists(program_state)
    /\ Exists(stakes[<<s, a>>])
    /\ stakes[<<s, a>>].staked_amount > 0
    /\ LET fee == decayFeeReference(Max(now - stakes[<<s, a>>].staked_at, 0), program_state)
       IN fee > 0 => lamports[s] >= fee + RENT_EXEMPT_MIN

(* C38.  A staker's WithdrawStake succeeds exactly when the fee configuration and
   the position exist, the position holds stake and the staker's native balance
   covers fee + rent-exempt minimum (when the fee is positive); in particular it
   never succeeds without a fee configuration.  SetActive, LockMemory,
   TransferOwner and UpdateMinStake steps, successful or not, leave the outcome of
   every staker's withdrawal as it was. *)
WithdrawUnblockable ==
    [][\A a \in Creators :
          /\ last'.op = "WithdrawStake" =>
                 \A s \in Keys :
                     WithdrawStake(s, s, a) =>
                         /\ last'.err = WithdrawOutcome(s, a)
                         /\ (last'.err = "Ok") <=> WithdrawEnabled(s, a)
                         /\ ~Exists(program_state) => last'.err # "Ok"
          /\ last'.op \in {"SetActive", "LockMemory", "TransferOwner", "UpdateMinStake"} =>
                 \A s \in Keys : WithdrawOutcome(s, a)' = WithdrawOutcome(s, a)]_vars

(* The staker has withdrawn for the second time, from a pool whose minimum is 2,
   while the agent is inactive, locked and in other hands *)
WithdrawUnblockableWitness ==
    /\ last.op = "WithdrawStake" /\ last.err = "Ok"
    /\ Exists(agents[1]) /\ Exists(pools[1])
    /\ ~HasFlag(agents[1].flags, FLAG_ACTIVE)
    /\ HasFlag(agents[1].flags, FLAG_LOCKED)
    /\ agents[1].owner # agents[1].creator
    /\ pools[1].min_stake_amount = 2
    /\ tokens[1] = InitTokens /\ pools[1].staker_count = 2

(* C39.  A successful CloseAgent leaves no record at the creator's address, and a
   CreateAgent for a creator without a record, signed by that creator with a card
   and memory arguments that pass validation, succeeds and leaves a record with
   owner = creator, ACTIVE set, LOCKED clear and the card and memory of its
   arguments: the record create_agent builds from the arguments alone, whatever
   record was closed before.  Any other CreateAgent fails and leaves no record. *)
RecreateAfterClose ==
    [][\A c \in Creators :
          /\ (last'.op = "CloseAgent" /\ last'.err = "Ok" /\ Exists(agents[c])) =>
                 /\ ~Exists(agents'[c])
                 /\ CreateAgentAccounts(agents'[c], c, c) = "Ok"
          /\ (last'.op = "CreateAgent" /\ ~Exists(agents[c])) =>
                 \A s \in Keys, u \in CardUris, h \in CardHashes, hs \in HasStakingArgs, m \in CreateMemoryArgs :
                     CreateAgent(s, c, u, h, hs, m[1], m[2], m[3]) =>
                         IF /\ s = c
                            /\ card_check(u) = "Ok"
                            /\ create_agent_memory(FreshAgent, m[1], m[2], m[3]).err = "Ok"
                         THEN /\ last'.err = "Ok"
                              /\ Exists(agents'[c])
                              /\ agents'[c].owner = c /\ agents'[c].creator = c
                              /\ HasFlag(agents'[c].flags, FLAG_ACTIVE)
                              /\ ~HasFlag(agents'[c].flags, FLAG_LOCKED)
                              /\ StoredCard(agents'[c], u)
                              /\ ~m[1].some => Memory(agents'[c]) = <<0, 0, Zeros(96), ZeroHash>>
                              /\ agents'[c] = create_agent(c, u, h, hs, m[1], m[2], m[3]).acc
                         ELSE last'.err # "Ok" /\ ~Exists(agents'[c])]_vars

(* A record that was locked with a memory pointer has been closed, and the creator
   holds a new record that is unlocked and has no memory *)
RecreateAfterCloseWitness ==
    /\ last.op = "CreateAgent" /\ last.err = "Ok"
    /\ lock_snapshot[1].taken /\ lock_snapshot[1].memory[1] # 0
    /\ Exists(agents[1])
    /\ ~HasFlag(agents[1].flags, FLAG_LOCKED)
    /\ agents[1].owner = 1
    /\ agents[1].memory_mode = 0

(* The records the staking instructions write, and the result of executing the
   instruction o = <<name, amount>> of staker s on agent a from such records: the
   account validation, the handler, and the commit of its result when it is Ok *)
Ledger == [pools |-> pools, stakes |-> stakes, tokens |-> tokens, vaults |-> vaults, lamports |-> lamports]
Execute(L, s, a, o) ==
    LET pool == L.pools[a]
        acc == L.stakes[<<s, a>>]
        chk == IF o[1] = "Stake" THEN StakeAccounts(pool, acc, s, s)
               ELSE WithdrawStakeAccounts(program_state, pool, acc, s, s)
        r == IF chk # "Ok"
             THEN StakeOut(chk, pool, acc, L.tokens[s], L.vaults[a], L.lamports, 0, "none")
             ELSE IF o[1] = "Stake"
             THEN stake(pool, acc, s, o[2], L.tokens[s], L.vaults[a], L.lamports, now)
             ELSE withdraw_stake(pool, program_state, acc, s, L.tokens[s], L.vaults[a], L.lamports, now)
    IN [err |-> r.err,
        ledger |-> IF r.err = "Ok"
                   THEN [pools |-> [L.pools EXCEPT ![a] = r.pool],
                         stakes |-> [L.stakes EXCEPT ![<<s, a>>] = r.stake_acc],
                         tokens |-> [L.tokens EXCEPT ![s] = r.staker_tokens],
                         vaults |-> [L.vaults EXCEPT ![a] = r.vault_tokens],
                         lamports |-> r.balances]
                   ELSE L]

(* Instruction o1 of staker 1 and instruction o2 of staker 2 on agent a give the
   same two results and the same records in either order *)
Commute(a, o1, o2) ==
    LET first1 == Execute(Ledger, 1, a, o1)
        then2 == Execute(first1.ledger, 2, a, o2)
        first2 == Execute(Ledger, 2, a, o2)
        then1 == Execute(first2.ledger, 1, a, o1)
    IN /\ first1.err = then1.err
       /\ first2.err = then2.err
       /\ then2.ledger = then1.ledger

(* C40, as amended.  While the treasury is neither of the two stakers, a Stake or
   WithdrawStake of one staker and a Stake or WithdrawStake of the other on the
   same pool give the same results and the same pool, positions, vault and
   balances in either order; and, whoever the treasury is, a Stake or WithdrawStake
   step of one staker does what Execute computes and leaves the other staker's
   position as it was. *)
StakersCommuteApart ==
    [][\A a \in Creators :
          /\ (Exists(pools[a]) /\ (Exists(program_state) => program_state.treasury \notin Keys)) =>
                 \A o1 \in StakerOps, o2 \in StakerOps : Commute(a, o1, o2)
          /\ last'.op \in {"Stake", "WithdrawStake"} =>
                 \A s \in Keys, o \in StakerOps :
                     (IF o[1] = "Stake" THEN Stake(s, s, a, o[2]) ELSE WithdrawStake(s, s, a)) =>
                         /\ last'.err = Execute(Ledger, s, a, o).err
                         /\ Ledger' = Execute(Ledger, s, a, o).ledger
                         /\ \A p \in Keys \ {s} : stakes'[<<p, a>>] = stakes[<<p, a>>]]_vars

(* Both stakers hold stake and the first can pay the withdrawal fee, with a
   third-party treasury: a withdrawal of the first and a deposit or a withdrawal
   of the second are both possible *)
StakersCommuteApartWitness ==
    /\ Exists(program_state) /\ program_state.treasury = TreasuryKey
    /\ Exists(pools[1]) /\ pools[1].staker_count = 2
    /\ StakedAmount(1, 1) > 0 /\ StakedAmount(2, 1) > 0
    /\ Execute(Ledger, 1, 1, <<"WithdrawStake", 0>>).err = "Ok"
    /\ Execute(Ledger, 2, 1, <<"Stake", 1>>).err = "Ok"
    /\ Execute(Ledger, 2, 1, <<"WithdrawStake", 0>>).err = "InsufficientSolForFee"
    /\ last.op = "Stake" /\ last.err = "Ok"

(* C40, as stated.  Stake and WithdrawStake instructions of two different stakers
   on the same pool give the same results and the same final records in either
   order. *)
StakersCommute ==
    \A a \in Creators :
        Exists(pools[a]) => \A o1 \in StakerOps, o2 \in StakerOps : Commute(a, o1, o2)

====
